---- MODULE Spec2Model ----
(***************************************************************************)
(* A model of the projection engine of SmartRetire                         *)
(* (src/utils/calculations.ts): convertToHKD, calculatePMT,                *)
(* calculatePortfolioStats, calculateCompoundInterest, runStressTests,     *)
(* runMonteCarloSimulation and calculateGapAnalysis.                       *)
(*                                                                         *)
(* Numbers.  A TypeScript `number` that holds an amount of money is a      *)
(* fixed-point integer counting units of 1/Scale; a dimensionless number   *)
(* (a percentage, a rate, a weight, a discount factor) is an exact         *)
(* fraction <<n, d>> in lowest terms with d > 0.  A product of an amount   *)
(* and a fraction is rounded to the nearest unit, as a double rounds to    *)
(* the nearest representable value; with the inputs drawn below the        *)
(* products the claims rest on are exact.  Ages and calendar years are     *)
(* integers; the remaining years of a mortgage are a fraction.             *)
(*                                                                         *)
(* calculateCompoundInterest is followed year by year (Spec, SpecMortgage, *)
(* SpecGrowth) and, for what a single month does, month by month           *)
(* (SpecMonths).                                                           *)
(*                                                                         *)
(* The environment.  The calendar year that new Date().getFullYear()       *)
(* gives is the variable now; the values that randn_bm makes of            *)
(* Math.random are chosen anew at every draw and recorded in draws.        *)
(***************************************************************************)
EXTENDS Integers, Sequences, FiniteSets

VARIABLES
    params,          \* CalculationParams of the call
    events,          \* LifecycleEvent[] of the call
    lifeExpectancy,  \* third argument of calculateCompoundInterest
    pc,              \* position in calculateCompoundInterest
    year,            \* loop counter of the year loop
    acc,             \* the running (unrounded) locals of the projection
    results,         \* YearlyResult[] built so far
    spc,             \* position in runStressTests
    baselineBalance, \* runStressTests: baselineBalance
    outcomes,        \* runStressTests: the mapped StressTestResult[]
    calls,           \* runStressTests: the calculateCompoundInterest calls made
    assets,          \* Asset[] handed to calculatePortfolioStats
    ppc,             \* position in calculatePortfolioStats
    stats,           \* PortfolioStats returned
    pmtIn,           \* arguments of calculatePMT
    pmtOut,          \* result of calculatePMT
    convIn,          \* arguments of convertToHKD
    convOut,         \* result of convertToHKD
    now,             \* the calendar year new Date().getFullYear() gives
    callNo,          \* which of two successive calls is running
    previous,        \* what the first of the two calls returned
    mcIn,            \* arguments of runMonteCarloSimulation
    mpc,             \* position in runMonteCarloSimulation
    trial,           \* runMonteCarloSimulation: s, the trial counter
    yr,              \* runMonteCarloSimulation: y, the year counter
    trialBalance,    \* runMonteCarloSimulation: balance, of the trial
    resultsByYear,   \* runMonteCarloSimulation: the balances of each year
    finalResults,    \* runMonteCarloSimulation: the SimulationResult[]
    draws,           \* the values randn_bm has returned so far
    gapIn,           \* arguments of calculateGapAnalysis
    gapOut,          \* result of calculateGapAnalysis, <<>> before the return
    month,           \* loop counter of the monthly loop, 0 outside of it
    extraInvestFromMortgage  \* the monthly loop's local, of the last month

vars == <<params, events, lifeExpectancy, pc, year, acc, results,
          spc, baselineBalance, outcomes, calls,
          assets, ppc, stats, pmtIn, pmtOut, convIn, convOut,
          now, callNo, previous,
          mcIn, mpc, trial, yr, trialBalance, resultsByYear, finalResults,
          draws, gapIn, gapOut, month, extraInvestFromMortgage>>

projVars == <<params, events, lifeExpectancy, pc, year, acc, results>>
stressVars == <<spc, baselineBalance, outcomes, calls>>
portVars == <<assets, ppc, stats>>
pmtVars == <<pmtIn, pmtOut>>
convVars == <<convIn, convOut>>
\* The variables of the calls modelled after the first four
repeatVars == <<now, callNo, previous>>
mcVars == <<mcIn, mpc, trial, yr, trialBalance, resultsByYear, finalResults,
          draws>>
gapVars == <<gapIn, gapOut>>
\* The monthly loop, when it is followed month by month
monthVars == <<month, extraInvestFromMortgage>>
restVars == <<convVars, repeatVars, mcVars, gapVars, monthVars>>

----------------------------------------------------------------------------
(* Numbers *)

\* Units per currency unit: 1/40 represents 0.125, 0.6 and 0.7 exactly.
Scale == 8 * 5

\* An amount of whole currency units.
M(x) == x * Scale

Abs(x) == IF x < 0 THEN -x ELSE x

Sign(x) == IF x > 0 THEN 1 ELSE IF x < 0 THEN -1 ELSE 0

RECURSIVE GCD(_, _)
GCD(a, b) == IF b = 0 THEN a ELSE GCD(b, a % b)

\* n/d with both divided by g, the sign carried by the numerator.
Reduced(n, d, g) == <<Sign(d) * (n \div g), Sign(d) * (d \div g)>>

\* The fraction n/d in lowest terms, d > 0.  A zero denominator is the
\* result of a division by zero: <<0, 0>> is NaN, <<1, 0>> and <<-1, 0>>
\* are the infinities.
Rat(n, d) ==
    IF d = 0 THEN <<Sign(n), 0>>
    ELSE IF n = 0 THEN <<0, 1>>
    ELSE Reduced(n, d, GCD(Abs(n), Abs(d)))

IsNaN(a) == a = <<0, 0>>

RatInt(n) == <<n, 1>>
RatAdd(a, b) == Rat(a[1] * b[2] + b[1] * a[2], a[2] * b[2])
RatSub(a, b) == Rat(a[1] * b[2] - b[1] * a[2], a[2] * b[2])
RatMul(a, b) == Rat(a[1] * b[1], a[2] * b[2])
RatDivInt(a, k) == Rat(a[1], a[2] * k)
RatLess(a, b) == a[1] * b[2] < b[1] * a[2]

RatSquare(a) == RatMul(a, a)

RECURSIVE RatPow(_, _)
\* a to the power k >= 0, by squaring
RatPow(a, k) ==
    IF k = 0 THEN <<1, 1>>
    ELSE IF k % 2 = 0 THEN RatSquare(RatPow(a, k \div 2))
    ELSE RatMul(a, RatPow(a, k - 1))

\* 1 - value / 100
OneMinusPct(value) == Rat(100 - value, 100)

\* amount * fraction, rounded to the nearest unit ((a div d) * n plus the
\* rounded (a mod d) * n / d avoids the overflow of a * n).
MulRat(a, f) ==
    (a \div f[2]) * f[1] + ((2 * (a % f[2]) * f[1] + f[2]) \div (2 * f[2]))

\* An amount cut down to a whole currency unit
RoundDown(a) == (a \div Scale) * Scale

\* Math.round on an amount: the nearest whole currency unit, halves up.
Round(a) == ((2 * a + Scale) \div (2 * Scale)) * Scale

----------------------------------------------------------------------------
(* convertToHKD, calculatePMT, calculatePortfolioStats *)

\* The keys of the EXCHANGE_RATES object literal
Currencies == {"HKD", "USD", "CNY", "JPY", "GBP", "EUR"}

\* The property names an object literal inherits from Object.prototype:
\* EXCHANGE_RATES[name] is a function (an object for __proto__) for these.
Inherited ==
    {"constructor", "toString", "toLocaleString", "valueOf",
     "hasOwnProperty", "isPrototypeOf", "propertyIsEnumerable", "__proto__"}

\* EXCHANGE_RATES[currency] || 1 as a factor: a table entry, 1 for an
\* undefined property, and NaN (what a function or an object is as a
\* number) for an inherited one, which is truthy and so kept by ||.
ExchangeRate(currency) ==
    CASE currency = "HKD" -> <<1, 1>>
      [] currency = "USD" -> <<39, 5>>
      [] currency = "CNY" -> <<27, 25>>
      [] currency = "JPY" -> <<13, 250>>
      [] currency = "GBP" -> <<197, 20>>
      [] currency = "EUR" -> <<169, 20>>
      [] currency \in Inherited -> <<0, 0>>
      [] OTHER -> <<1, 1>>

\* A number that may be the result of a division by zero.
Num(v) == [kind |-> "number", v |-> v]
NaN == [kind |-> "NaN", v |-> 0]

\* amount * rate
Product(amount, rate) ==
    IF IsNaN(rate) THEN NaN ELSE Num(MulRat(amount, rate))

convertToHKD(amount, currency) == Product(amount, ExchangeRate(currency))
Infinity(sign) == [kind |-> "Infinity", v |-> sign]
\* No number yet: the call has not returned
Pending == [kind |-> "pending", v |-> 0]

\* pv / nper for an amount pv and a count nper, to the nearest unit.
Quotient(pv, nper) ==
    IF nper = 0
    THEN IF pv = 0 THEN NaN ELSE Infinity(Sign(pv))
    ELSE Num((2 * pv + nper) \div (2 * nper))

\* numer / denom for an amount numer and a fraction denom.
QuotientRat(numer, denom) ==
    IF IsNaN(denom) THEN NaN
    ELSE IF denom[2] = 0 THEN Num(0)
    ELSE IF denom[1] = 0
         THEN IF numer = 0 THEN NaN ELSE Infinity(Sign(numer))
    ELSE Num(MulRat(numer, Rat(denom[2], denom[1])))

\* Math.pow(1 + monthlyRate, -nper)
Discount(monthlyRate, nper) ==
    RatPow(Rat(monthlyRate[2], monthlyRate[1] + monthlyRate[2]), nper)

\* (pv * monthlyRate) / (1 - Math.pow(1 + monthlyRate, -nper))
AnnuityPayment(monthlyRate, nper, pv) ==
    QuotientRat(MulRat(pv, monthlyRate),
                RatSub(RatInt(1), Discount(monthlyRate, nper)))

\* A test that never takes the zero-rate branch
NeverZeroRate(rate) == FALSE

\* if (rate === 0)
ZeroRate(rate) == rate = 0

calculatePMT(rate, nper, pv) ==
    IF ZeroRate(rate) THEN Quotient(pv, nper)
    ELSE AnnuityPayment(Rat(rate, 1200), nper, pv)

\* asset.currentPrice * (asset.quantity || 0), converted to HKD; the
\* currencies of the assets drawn below are table keys or undefined
\* properties, for which the conversion is a number
HkdValue(asset) ==
    convertToHKD(asset.currentPrice * asset.quantity, asset.currency).v

RECURSIVE TotalOf(_, _)
\* First pass: totalValueHKD over the first n assets
TotalOf(as, n) == IF n = 0 THEN 0 ELSE TotalOf(as, n - 1) + HkdValue(as[n])

\* x cut to a whole number
ToFixed0(x) ==
    IF x[2] = 0 THEN x ELSE Rat(Sign(x[1]) * (Abs(x[1]) \div x[2]), 1)

\* x.toFixed(1) parsed back: x to one decimal, halves away from zero.
ToFixed1(x) ==
    IF x[2] = 0 THEN x
    ELSE Rat(Sign(x[1]) * ((20 * Abs(x[1]) + x[2]) \div (2 * x[2])), 10)

\* hkdValue / totalValueHKD
Weight(asset, totalValueHKD) == Rat(HkdValue(asset), totalValueHKD)

\* sums with the three metrics of asset added at the given weight
AddWeighted(sums, asset, weight) ==
    [weightedReturn |->
         RatAdd(sums.weightedReturn, RatMul(RatInt(asset.expectedReturn), weight)),
     weightedYield |->
         RatAdd(sums.weightedYield, RatMul(RatInt(asset.dividendYield), weight)),
     weightedVolatility |->
         RatAdd(sums.weightedVolatility, RatMul(RatInt(asset.volatility), weight))]

ZeroSums ==
    [weightedReturn |-> RatInt(0), weightedYield |-> RatInt(0),
     weightedVolatility |-> RatInt(0)]

RECURSIVE WeightedSums(_, _, _)
\* Second pass over the first n assets: the three weighted sums
WeightedSums(as, n, totalValueHKD) ==
    IF n = 0 THEN ZeroSums
    ELSE AddWeighted(WeightedSums(as, n - 1, totalValueHKD), as[n],
                     Weight(as[n], totalValueHKD))

\* asset.allocation = parseFloat((weight * 100).toFixed(1))
Allocation(asset, totalValueHKD) ==
    ToFixed1(RatMul(Weight(asset, totalValueHKD), RatInt(100)))

\* Second pass: the assets with the allocation written on each
WithAllocation(as, totalValueHKD) ==
    [i \in 1..Len(as) |->
        [as[i] EXCEPT !.allocation = Allocation(as[i], totalValueHKD)]]

\* A guard that lets a zero total through
NeverEmptyPortfolio(totalValueHKD) == FALSE

\* if (totalValueHKD === 0)
EmptyPortfolio(totalValueHKD) == totalValueHKD = 0

StatsOf(sums, totalValueHKD) ==
    [weightedReturn |-> sums.weightedReturn,
     weightedYield |-> sums.weightedYield,
     weightedVolatility |-> sums.weightedVolatility,
     totalValue |-> totalValueHKD]

\* The call from the guard on: the statistics returned, and the assets as
\* the call leaves them
PortfolioStatsOf(as, totalValueHKD) ==
    IF EmptyPortfolio(totalValueHKD)
    THEN [stats |-> StatsOf(ZeroSums, 0), assets |-> as]
    ELSE [stats |-> StatsOf(WeightedSums(as, Len(as), totalValueHKD),
                            totalValueHKD),
          assets |-> WithAllocation(as, totalValueHKD)]

calculatePortfolioStats(as) == PortfolioStatsOf(as, TotalOf(as, Len(as)))

----------------------------------------------------------------------------
(* calculateCompoundInterest *)

\* A LifecycleEvent; duration 0 is an absent duration
Event(type, startAge, duration, value) ==
    [type |-> type, startAge |-> startAge, duration |-> duration,
     value |-> value]

\* The calendar year in which the first call is made
CurrentYear == 2026

RECURSIVE FindFirst(_, _, _)
\* Index of the first event of the given type at or after i, 0 when none.
FindFirst(ev, type, i) ==
    IF i > Len(ev) THEN 0
    ELSE IF ev[i].type = type THEN i
    ELSE FindFirst(ev, type, i + 1)

\* A retirement age that no event moves
RetirementAgeIgnoring(p, ev, i) == p.retirementAge

\* earlyRetireEvent ? params.retirementAge - earlyRetireEvent.value : ...
RetirementAgeWith(p, ev, i) ==
    IF i # 0 THEN p.retirementAge - ev[i].value ELSE p.retirementAge

\* events.find(e => e.type === 'RETIREMENT_EARLY'), then the ternary
EffectiveRetirementAge(p, ev) ==
    RetirementAgeWith(p, ev, FindFirst(ev, "RETIREMENT_EARLY", 1))

\* useManualReturn ? manual rate : weighted rate, both in percent
RatesOf(p, s) ==
    [appreciation |-> IF p.useManualReturn THEN RatInt(p.manualReturnRate)
                      ELSE s.weightedReturn,
     yield |-> IF p.useManualReturn THEN RatInt(p.manualDividendYield)
               ELSE s.weightedYield]

\* annualPriceAppreciation and annualDividendYield
AnnualRates(p) == RatesOf(p, calculatePortfolioStats(p.assets).stats)

\* An early return that lets a zero year count through
NoProjectionBelowZero(yearsToSimulate) == yearsToSimulate < 0

\* if (yearsToSimulate <= 0) return results
NoProjection(yearsToSimulate) == yearsToSimulate <= 0

\* The term counted in whole years
TermYears(m) == m.remainingYears[1] \div m.remainingYears[2]

\* mortgage.remainingYears * 12; remainingYears is a fraction of years (the
\* form reads it with parseFloat) whose twelvefold is a whole number for
\* every mortgage drawn below
TermMonths(m) == (m.remainingYears[1] * 12) \div m.remainingYears[2]

\* The scheduled monthly mortgage payment
MortgageMonthlyPayment(m) ==
    IF m.hasMortgage /\ m.remainingPrincipal > 0 /\ m.remainingYears[1] > 0
    THEN IF m.monthlyPayment > 0
         THEN m.monthlyPayment
         ELSE calculatePMT(m.annualRate, TermMonths(m),
                           m.remainingPrincipal).v
    ELSE 0

\* The locals before the year loop, given the annual rates
LocalsWith(p, ev, rates) ==
    [effectiveRetirementAge |-> EffectiveRetirementAge(p, ev),
     \* const currentYear = new Date().getFullYear()
     currentYear |-> now,
     annualPriceAppreciation |-> rates.appreciation,
     annualDividendYield |-> rates.yield,
     currentBalance |-> p.initialPrincipal,
     totalContributed |-> p.initialPrincipal,
     totalAppreciation |-> 0,
     totalDividends |-> 0,
     mortgageBalance |-> IF p.mortgage.hasMortgage
                         THEN p.mortgage.remainingPrincipal ELSE 0,
     mortgageMonthlyPayment |-> MortgageMonthlyPayment(p.mortgage),
     monthsRemainingOnMortgage |-> IF p.mortgage.hasMortgage
                                   THEN TermMonths(p.mortgage) ELSE 0,
     effectiveYield |-> rates.yield]

\* The locals before the year loop
InitialAcc(p, ev) == LocalsWith(p, ev, AnnualRates(p))

\* The year-0 record with its passive income
InitialRecordWith(p, a, income) ==
    [age |-> p.currentAge,
     year |-> a.currentYear,
     totalPrincipal |-> a.totalContributed,
     totalAppreciation |-> 0,
     totalDividends |-> 0,
     totalBalance |-> a.currentBalance,
     totalLiabilities |-> a.mortgageBalance,
     netWorth |-> a.currentBalance - a.mortgageBalance,
     yearlyPassiveIncome |-> income,
     totalPrincipalReal |-> a.totalContributed,
     totalAppreciationReal |-> 0,
     totalDividendsReal |-> 0,
     totalBalanceReal |-> a.currentBalance,
     totalLiabilitiesReal |-> a.mortgageBalance,
     netWorthReal |-> a.currentBalance - a.mortgageBalance,
     yearlyPassiveIncomeReal |-> income]

\* The year-0 record
InitialRecord(p, a) ==
    InitialRecordWith(p, a,
        MulRat(p.initialPrincipal, RatDivInt(a.annualDividendYield, 100)))

\* A duration without the default of 1
DurationGiven(e) == e.duration

\* e.duration || 1
DurationOf(e) == IF e.duration = 0 THEN 1 ELSE e.duration

\* age >= e.startAge && age < (e.startAge + (e.duration || 1))
ActiveAt(e, age) == age >= e.startAge /\ age < e.startAge + DurationOf(e)

\* events.filter(...): the events of the year, in list order
YearEvents(ev, age) == SelectSeq(ev, LAMBDA e : ActiveAt(e, age))

\* yearEvents.filter(e => e.type === ...)
OfType(yearEvents, types) == SelectSeq(yearEvents, LAMBDA e : e.type \in types)

RECURSIVE ApplyCrashes(_, _)
\* crashEvents.forEach: currentBalance * (1 - e.value / 100)
ApplyCrashes(balance, crashEvents) ==
    IF crashEvents = <<>> THEN balance
    ELSE ApplyCrashes(MulRat(balance, OneMinusPct(Head(crashEvents).value)),
                      Tail(crashEvents))

RECURSIVE ApplyReductions(_, _)
\* returnEvents.forEach: rate * (1 - e.value / 100)
ApplyReductions(rate, returnEvents) ==
    IF returnEvents = <<>> THEN rate
    ELSE ApplyReductions(RatMul(rate, OneMinusPct(Head(returnEvents).value)),
                         Tail(returnEvents))

RECURSIVE ExpensesToZero(_, _)
\* Expenses that leave a balance of zero where they exceed it
ExpensesToZero(balance, expenseEvents) ==
    IF expenseEvents = <<>> THEN (IF balance < 0 THEN 0 ELSE balance)
    ELSE ExpensesToZero(balance - M(Head(expenseEvents).value),
                        Tail(expenseEvents))

RECURSIVE ApplyExpenses(_, _)
\* expenseEvents.forEach: currentBalance -= e.value
ApplyExpenses(balance, expenseEvents) ==
    IF expenseEvents = <<>> THEN balance
    ELSE ApplyExpenses(balance - M(Head(expenseEvents).value),
                       Tail(expenseEvents))

\* The balance after the expenses, then the crashes, of the year
ExpensesFirst(balance, yearEvents) ==
    ApplyCrashes(ApplyExpenses(balance,
                     OfType(yearEvents,
                            {"ONE_TIME_EXPENSE", "RECURRING_EXPENSE"})),
                 OfType(yearEvents, {"MARKET_CRASH"}))

\* The balance after the crashes, then the expenses, of the year
BalanceAfterEvents(balance, yearEvents) ==
    ApplyExpenses(ApplyCrashes(balance, OfType(yearEvents, {"MARKET_CRASH"})),
                  OfType(yearEvents, {"ONE_TIME_EXPENSE", "RECURRING_EXPENSE"}))

\* A contribution that no event stops
ContribUntilRetired(isRetired, yearEvents, contribution) ==
    IF isRetired THEN 0 ELSE contribution

\* isRetired ? 0 : contribution, zeroed by a CONTRIBUTION_STOP event
EffectiveContrib(isRetired, yearEvents, contribution) ==
    IF OfType(yearEvents, {"CONTRIBUTION_STOP"}) # <<>> THEN 0
    ELSE IF isRetired THEN 0 ELSE contribution

\* A payment taken off the balance without the floor at zero
PayBelowZero(mortgageBalance, principalPayment) ==
    mortgageBalance - principalPayment

\* mortgageBalance after the month's principal payment
PayDown(mortgageBalance, principalPayment) ==
    IF mortgageBalance > principalPayment
    THEN mortgageBalance - principalPayment
    ELSE 0

\* The month of a running mortgage: the payment's principal part is paid
\* down and a month is counted off
MortgageMonth(a, monthlyMortgageRate) ==
    [a EXCEPT
        !.mortgageBalance =
            PayDown(@, a.mortgageMonthlyPayment
                       - MulRat(@, monthlyMortgageRate)),
        !.monthsRemainingOnMortgage = @ - 1]

\* A redirect that does not ask for the switches
RedirectAlways(p, a) == a.mortgageMonthlyPayment

\* extraInvestFromMortgage in a month without a running mortgage
ExtraInvestFromMortgage(p, a) ==
    IF p.mortgage.hasMortgage /\ p.mortgage.reinvestAfterPayoff
    THEN a.mortgageMonthlyPayment
    ELSE 0

\* Dividends that are counted and not added to the balance
PaidOut(a, appreciationAmount, dividendAmount) ==
    [a EXCEPT !.totalAppreciation = @ + appreciationAmount,
              !.totalDividends = @ + dividendAmount,
              !.currentBalance = @ + appreciationAmount]

\* The month's appreciation and dividend added to the balance and totals
Accrue(a, appreciationAmount, dividendAmount) ==
    [a EXCEPT !.totalAppreciation = @ + appreciationAmount,
              !.totalDividends = @ + dividendAmount,
              !.currentBalance = @ + appreciationAmount + dividendAmount]

\* The month's growth on the balance after the month's input
Grow(a, monthlyAppreciationRate, monthlyDividendRate) ==
    Accrue(a, MulRat(a.currentBalance, monthlyAppreciationRate),
              MulRat(a.currentBalance, monthlyDividendRate))

\* currentBalance += totalMonthlyInput; totalContributed += totalMonthlyInput
Invest(a, totalMonthlyInput) ==
    [a EXCEPT !.currentBalance = @ + totalMonthlyInput,
              !.totalContributed = @ + totalMonthlyInput]

\* A month whose mortgage payment is taken out of what is invested
MonthPaidFromBalance(a, contrib, appreciationRate, dividendRate, mortgageRate) ==
    Grow(Invest(MortgageMonth(a, mortgageRate),
                contrib - a.mortgageMonthlyPayment),
         appreciationRate, dividendRate)

\* One iteration of the monthly loop while the mortgage runs
MonthPaying(a, contrib, appreciationRate, dividendRate, mortgageRate) ==
    Grow(Invest(MortgageMonth(a, mortgageRate), contrib),
         appreciationRate, dividendRate)

\* One iteration of the monthly loop without a running mortgage
MonthPaidOff(p, a, contrib, appreciationRate, dividendRate) ==
    Grow(Invest(a, contrib + ExtraInvestFromMortgage(p, a)),
         appreciationRate, dividendRate)

\* One iteration of the monthly loop
MonthBody(p, a, contrib, appreciationRate, dividendRate, mortgageRate) ==
    IF a.monthsRemainingOnMortgage > 0
    THEN MonthPaying(a, contrib, appreciationRate, dividendRate, mortgageRate)
    ELSE MonthPaidOff(p, a, contrib, appreciationRate, dividendRate)

RECURSIVE MonthLoop(_, _, _, _, _, _, _)
\* for (let month = 1; month <= 12; month++), branching on
\* if (monthsRemainingOnMortgage > 0)
MonthLoop(p, a, m, contrib, appreciationRate, dividendRate, mortgageRate) ==
    IF m > 12 THEN a
    ELSE IF a.monthsRemainingOnMortgage > 0
    THEN MonthLoop(p,
                   MonthPaying(a, contrib, appreciationRate, dividendRate,
                               mortgageRate),
                   m + 1, contrib, appreciationRate, dividendRate,
                   mortgageRate)
    ELSE MonthLoop(p,
                   MonthPaidOff(p, a, contrib, appreciationRate,
                                dividendRate),
                   m + 1, contrib, appreciationRate, dividendRate,
                   mortgageRate)

\* The monthly loop of a year at the year's rates
Months(p, a, contrib, effectiveAppreciation) ==
    MonthLoop(p, a, 1, contrib,
              RatDivInt(effectiveAppreciation, 1200),
              RatDivInt(a.effectiveYield, 1200),
              Rat(p.mortgage.annualRate, 1200))

\* currentBalance += effectiveAnnualContrib, and the contributed total
YearEnd(a, effectiveAnnualContrib) ==
    [a EXCEPT !.currentBalance = @ + effectiveAnnualContrib,
              !.totalContributed = @ + effectiveAnnualContrib]

\* The start of the year: the events' effect on the balance and the yield
YearStart(a, yearEvents) ==
    [a EXCEPT
        !.currentBalance = BalanceAfterEvents(@, yearEvents),
        !.effectiveYield =
            ApplyReductions(a.annualDividendYield,
                            OfType(yearEvents, {"RETURN_REDUCTION"}))]

\* The year's body given its events and whether the saver is retired
YearWith(p, a, yearEvents, isRetired) ==
    YearEnd(Months(p, YearStart(a, yearEvents),
                   EffectiveContrib(isRetired, yearEvents,
                                    p.monthlyContribution),
                   ApplyReductions(a.annualPriceAppreciation,
                                   OfType(yearEvents, {"RETURN_REDUCTION"}))),
            EffectiveContrib(isRetired, yearEvents,
                             p.annualExtraContribution))

\* The locals as the last record shows them
AsRecorded(a) ==
    [a EXCEPT !.currentBalance = Round(@),
              !.totalContributed = Round(@),
              !.totalAppreciation = Round(@),
              !.totalDividends = Round(@),
              !.mortgageBalance = Round(@)]

\* A year that starts from what the last record shows
YearFromRecord(p, ev, a, y) ==
    YearWith(p, AsRecorded(a), YearEvents(ev, p.currentAge + y),
             p.currentAge + y >= a.effectiveRetirementAge)

\* The body of the year loop up to the year end: the locals after it
YearBody(p, ev, a, y) ==
    YearWith(p, a, YearEvents(ev, p.currentAge + y),
             p.currentAge + y >= a.effectiveRetirementAge)

\* Math.pow(1 + inflationRate / 100, -year)
DiscountFactor(p, y) == RatPow(Rat(100, 100 + p.inflationRate), y)

\* The record of year y given the discount factor and the passive income
YearRecordWith(p, a, y, discountFactor, income) ==
    [age |-> p.currentAge + y,
     year |-> a.currentYear + y,
     totalPrincipal |-> Round(a.totalContributed),
     totalAppreciation |-> Round(a.totalAppreciation),
     totalDividends |-> Round(a.totalDividends),
     totalBalance |-> Round(a.currentBalance),
     totalLiabilities |-> Round(a.mortgageBalance),
     netWorth |-> Round(a.currentBalance - a.mortgageBalance),
     yearlyPassiveIncome |-> Round(income),
     totalPrincipalReal |-> Round(MulRat(a.totalContributed, discountFactor)),
     totalAppreciationReal |->
         Round(MulRat(a.totalAppreciation, discountFactor)),
     totalDividendsReal |-> Round(MulRat(a.totalDividends, discountFactor)),
     totalBalanceReal |-> Round(MulRat(a.currentBalance, discountFactor)),
     totalLiabilitiesReal |->
         Round(MulRat(a.mortgageBalance, discountFactor)),
     netWorthReal |->
         Round(MulRat(a.currentBalance - a.mortgageBalance, discountFactor)),
     yearlyPassiveIncomeReal |-> Round(MulRat(income, discountFactor))]

\* The record pushed at the end of year y
YearRecord(p, a, y) ==
    YearRecordWith(p, a, y, DiscountFactor(p, y),
        MulRat(a.currentBalance, RatDivInt(a.effectiveYield, 100)))

\* A year loop that leaves out the last year
LoopStopsEarly(y, yearsToSimulate) == y < yearsToSimulate

\* year <= yearsToSimulate
LoopContinues(y, yearsToSimulate) == y <= yearsToSimulate

RECURSIVE YearLoop(_, _, _, _, _, _)
RECURSIVE YearPush(_, _, _, _, _, _)
\* for (let year = 1; year <= yearsToSimulate; year++)
YearLoop(p, ev, a, y, yearsToSimulate, res) ==
    IF ~LoopContinues(y, yearsToSimulate) THEN res
    ELSE YearPush(p, ev, YearBody(p, ev, a, y), y, yearsToSimulate, res)

\* results.push(...), then the next iteration
YearPush(p, ev, a, y, yearsToSimulate, res) ==
    YearLoop(p, ev, a, y + 1, yearsToSimulate,
             Append(res, YearRecord(p, a, y)))

\* The call from the year-0 record on
Project(p, ev, a, yearsToSimulate) ==
    YearLoop(p, ev, a, 1, yearsToSimulate, <<InitialRecord(p, a)>>)

calculateCompoundInterest(p, ev, le) ==
    IF NoProjection(le - p.currentAge) THEN <<>>
    ELSE Project(p, ev, InitialAcc(p, ev), le - p.currentAge)

----------------------------------------------------------------------------
(* runStressTests *)

\* The scenario catalog; customLifeExpectancy 0 is an absent field
Scenarios(p) ==
    << [id |-> "unemployment", customLifeExpectancy |-> 0,
        events |-> << Event("CONTRIBUTION_STOP", 40, 2, 0),
                      Event("RECURRING_EXPENSE", 40, 2, 300000) >>],
       [id |-> "illness", customLifeExpectancy |-> 0,
        events |-> << Event("ONE_TIME_EXPENSE", 50, 1, 1500000) >>],
       [id |-> "crash", customLifeExpectancy |-> 0,
        events |-> << Event("MARKET_CRASH", p.retirementAge, 1, 40) >>],
       [id |-> "care", customLifeExpectancy |-> 0,
        events |-> << Event("RECURRING_EXPENSE", 75, 10, 480000) >>],
       [id |-> "early_retire", customLifeExpectancy |-> 0,
        events |-> << Event("RETIREMENT_EARLY", p.retirementAge - 5, 1, 5) >>],
       [id |-> "low_return", customLifeExpectancy |-> 0,
        events |-> << Event("RETURN_REDUCTION", p.currentAge, 50, 30) >>],
       [id |-> "inflation", customLifeExpectancy |-> 0,
        events |-> << Event("RETURN_REDUCTION", p.currentAge, 50, 20) >>],
       [id |-> "longevity", customLifeExpectancy |-> 100,
        events |-> << >>],
       [id |-> "perfect_storm", customLifeExpectancy |-> 0,
        events |-> << Event("RETIREMENT_EARLY", p.retirementAge - 5, 1, 5),
                      Event("MARKET_CRASH", p.retirementAge - 5, 1, 30),
                      Event("ONE_TIME_EXPENSE", 60, 1, 1000000) >>] >>

\* The balance of the first record instead of the last
FirstBalance(res) == IF res = <<>> THEN 0 ELSE res[1].totalBalance

\* The balance of the record before the last
BalanceBeforeLast(res) ==
    IF Len(res) < 2 THEN 0 ELSE res[Len(res) - 1].totalBalance

\* res[res.length - 1]?.totalBalance || 0
LastBalance(res) == IF res = <<>> THEN 0 ELSE res[Len(res)].totalBalance

\* scenario.customLifeExpectancy || 85
ScenarioLifeExpectancy(scenario) ==
    IF scenario.customLifeExpectancy = 0 THEN 85
    ELSE scenario.customLifeExpectancy

\* The records r with r.totalBalance < 0, in order
Bankrupt(res) == SelectSeq(res, LAMBDA r : r.totalBalance < 0)

\* find's result: <<the first element>>, or <<>> for undefined
First(found) == IF found = <<>> THEN <<>> ELSE <<Head(found)>>

\* The ratio of the final to the baseline balance
Ratio(finalBalance, baseline) ==
    IF baseline > 0 THEN Rat(finalBalance, baseline) ELSE RatInt(0)

\* The three-way classification before the longevity rule
StatusByRatio(isBankrupt, finalBalance, ratio) ==
    IF isBankrupt \/ finalBalance <= 0 THEN "DANGER"
    ELSE IF RatLess(ratio, Rat(5, 10)) THEN "DANGER"
    ELSE IF RatLess(ratio, Rat(8, 10)) THEN "WARNING"
    ELSE "SAFE"

\* The classification without the longevity rule
StatusWithoutLongevity(scenario, isBankrupt, finalBalance, ratio) ==
    StatusByRatio(isBankrupt, finalBalance, ratio)

\* if (scenario.id === 'longevity' && finalBalance > 0) status = 'SAFE'
StatusOf(scenario, isBankrupt, finalBalance, ratio) ==
    IF scenario.id = "longevity" /\ finalBalance > 0 THEN "SAFE"
    ELSE StatusByRatio(isBankrupt, finalBalance, ratio)

\* The StressTestResult from the final balance and find's result;
\* bankruptAge is <<>> when undefined
OutcomeWith(scenario, baseline, finalBalance, bankruptYear) ==
    [scenario |-> scenario,
     finalBalance |-> finalBalance,
     baselineBalance |-> baseline,
     difference |-> finalBalance - baseline,
     isBankrupt |-> bankruptYear # <<>>,
     bankruptAge |-> IF bankruptYear # <<>> THEN <<bankruptYear[1].age>>
                     ELSE <<>>,
     status |-> StatusOf(scenario, bankruptYear # <<>>, finalBalance,
                         Ratio(finalBalance, baseline))]

\* A search that looks at the last record only
BankruptAtEnd(res) ==
    IF res # <<>> /\ res[Len(res)].totalBalance < 0
    THEN <<res[Len(res)]>> ELSE <<>>

\* res.find(r => r.totalBalance < 0)
BankruptYear(res) == First(Bankrupt(res))

\* The StressTestResult of one scenario, given its projection res
OutcomeOf(scenario, res, baseline) ==
    OutcomeWith(scenario, baseline, LastBalance(res), BankruptYear(res))

----------------------------------------------------------------------------
(* runMonteCarloSimulation *)

\* totalExpectedReturnMean = (baseReturn + baseYield) / 100
TotalExpectedReturnMean(rates) ==
    RatDivInt(RatAdd(rates.appreciation, rates.yield), 100)

\* volatilityStdDev = weightedVolatility / 100
VolatilityStdDev(portfolio) == RatDivInt(portfolio.weightedVolatility, 100)

\* randomReturn, given the value z that randn_bm returned
RandomReturn(p, portfolio, z) ==
    RatAdd(TotalExpectedReturnMean(RatesOf(p, portfolio)),
           RatMul(VolatilityStdDev(portfolio), z))

\* A balance that is left below zero
Unfloored(b) == b

\* if (balance < 0) balance = 0
Floored(b) == IF b < 0 THEN 0 ELSE b

\* (params.monthlyContribution * 12) + params.annualExtraContribution
AnnualContrib(p) == p.monthlyContribution * 12 + p.annualExtraContribution

\* balance * (1 + randomReturn) + annualContrib, floored at zero
NextBalance(p, b, z) ==
    Floored(MulRat(b, RatAdd(RatInt(1),
                             RandomReturn(p, calculatePortfolioStats(p.assets).stats, z)))
            + AnnualContrib(p))

\* An array that is one year short
OneShort(years) == [i \in 1..years |-> <<>>]

\* Array.from({ length: years + 1 }, () => []): a length below zero gives
\* the empty array
EmptyByYear(years) == [i \in 1..(years + 1) |-> <<>>]

\* resultsByYear[index].push(b), index counted from 0
Push(byYear, index, b) ==
    [byYear EXCEPT ![index + 1] = Append(@, b)]

RECURSIVE Insert(_, _)
\* The ascending sequence sorted with x put in its place
Insert(sorted, x) ==
    IF sorted = <<>> THEN <<x>>
    ELSE IF x <= Head(sorted) THEN <<x>> \o sorted
    ELSE <<Head(sorted)>> \o Insert(Tail(sorted), x)

RECURSIVE Sort(_)
\* balances.sort((a, b) => a - b)
Sort(balances) ==
    IF balances = <<>> THEN <<>>
    ELSE Insert(Sort(Tail(balances)), Head(balances))

\* The first element in place of the element at Math.floor(simulations * tenths / 10)
LowestAt(sorted, simulations, tenths) == sorted[1]

\* balances[Math.floor(simulations * 0.1)], and likewise for 0.5 and 0.9
ElementAt(sorted, simulations, tenths) ==
    sorted[(simulations * tenths) \div 10 + 1]

\* The SimulationResult of the year index, from its sorted balances
SimulationResultOf(p, simulations, sorted, index) ==
    [year |-> now + index,
     age |-> p.currentAge + index,
     p10 |-> Round(ElementAt(sorted, simulations, 1)),
     p50 |-> Round(ElementAt(sorted, simulations, 5)),
     p90 |-> Round(ElementAt(sorted, simulations, 9))]

\* resultsByYear.map(...): the balances of each year sorted in place
SortedByYear(byYear) == [i \in 1..Len(byYear) |-> Sort(byYear[i])]

\* resultsByYear.map(...): the returned array
FinalResults(p, simulations, byYear) ==
    [i \in 1..Len(byYear) |->
        SimulationResultOf(p, simulations, Sort(byYear[i]), i - 1)]

----------------------------------------------------------------------------
(* calculateGapAnalysis *)

\* PV * (1+r)^n: totalValue * Math.pow(1 + (weightedReturn +
\* weightedYield) / 100, yearsToRetirement)
FutureValue(portfolio, yearsToRetirement) ==
    MulRat(portfolio.totalValue,
           RatPow(RatAdd(RatInt(1),
                         RatDivInt(RatAdd(portfolio.weightedReturn,
                                          portfolio.weightedYield), 100)),
                  yearsToRetirement))

\* const conservativeYield = 0.045
ConservativeYield == Rat(45, 1000)

\* A suggestion that is the shortfall itself
Undiscounted(shortfall, yearsToRetirement) ==
    IF shortfall > 0 THEN shortfall ELSE 0

\* suggestedConservativeAmount: 0 unless shortfall > 0, then
\* shortfall / Math.pow(1 + conservativeYield, yearsToRetirement)
Suggested(shortfall, yearsToRetirement) ==
    IF shortfall > 0
    THEN QuotientRat(shortfall,
                     RatPow(RatAdd(RatInt(1), ConservativeYield),
                            yearsToRetirement)).v
    ELSE 0

\* The GapAnalysisResult, given the shortfall
GapResult(shortfall, yearsToRetirement) ==
    [shortfall |-> shortfall,
     suggestedConservativeAmount |-> Suggested(shortfall, yearsToRetirement),
     conservativeYield |-> RatMul(ConservativeYield, RatInt(100))]

calculateGapAnalysis(realStats, simulatedStats, yearsToRetirement) ==
    GapResult(FutureValue(simulatedStats, yearsToRetirement)
                  - FutureValue(realStats, yearsToRetirement),
              yearsToRetirement)

----------------------------------------------------------------------------
(* Inputs of the projection *)

\* Simulated years at most
MaxYears == 3
\* Events in a list at most
MaxEvents == 2

AgeNow == 30

NoMortgage ==
    [hasMortgage |-> FALSE, remainingPrincipal |-> 0, annualRate |-> 0,
     remainingYears |-> RatInt(0), monthlyPayment |-> 0,
     reinvestAfterPayoff |-> FALSE]

Mortgages ==
    { NoMortgage,
      \* payment left to calculatePMT: 3 / 24 = 0.125 a month
      [hasMortgage |-> TRUE, remainingPrincipal |-> M(3), annualRate |-> 0,
       remainingYears |-> RatInt(2), monthlyPayment |-> 0,
       reinvestAfterPayoff |-> TRUE],
      \* a payment below the monthly interest
      [hasMortgage |-> TRUE, remainingPrincipal |-> M(12),
       annualRate |-> 1200, remainingYears |-> RatInt(1),
       monthlyPayment |-> M(1),
       reinvestAfterPayoff |-> FALSE] }

Asset(price, quantity, currency, ret, yield, vol) ==
    [currentPrice |-> price, quantity |-> quantity, currency |-> currency,
     expectedReturn |-> ret, dividendYield |-> yield, volatility |-> vol,
     allocation |-> RatInt(0)]

\* useManualReturn, manualReturnRate, manualDividendYield, assets
ReturnChoices ==
    { [useManualReturn |-> TRUE, manualReturnRate |-> 0,
       manualDividendYield |-> 0, assets |-> <<>>],
      [useManualReturn |-> TRUE, manualReturnRate |-> -600,
       manualDividendYield |-> -600, assets |-> <<>>],
      [useManualReturn |-> FALSE, manualReturnRate |-> 0,
       manualDividendYield |-> 0,
       assets |-> <<Asset(M(10), 10, "HKD", 0, -1200, 20)>>] }

\* monthlyContribution, annualExtraContribution
Contributions == { <<0, 0>>, <<M(10), M(5)>> }

InflationRates == {0, 100}

MakeParams(age, retire, principal, c, infl, m, r) ==
    [currentAge |-> age, retirementAge |-> retire,
     initialPrincipal |-> principal,
     monthlyContribution |-> c[1], annualExtraContribution |-> c[2],
     inflationRate |-> infl, mortgage |-> m,
     useManualReturn |-> r.useManualReturn,
     manualReturnRate |-> r.manualReturnRate,
     manualDividendYield |-> r.manualDividendYield,
     assets |-> r.assets]

\* initialPrincipal 100, with every choice of the other fields
WholeParams ==
    { MakeParams(AgeNow, AgeNow + 2, M(100), c, infl, m, r) :
        c \in Contributions, infl \in InflationRates, m \in Mortgages,
        r \in ReturnChoices }

\* initialPrincipal 100.5 and 99.25 (the form parses any decimal), without
\* contributions and mortgage
FractionalParams ==
    { MakeParams(AgeNow, AgeNow + 2, principal, <<0, 0>>, infl, NoMortgage, r) :
        principal \in {M(100) + Scale \div 2, M(99) + Scale \div 4},
        infl \in InflationRates, r \in ReturnChoices }

ProjectionParams == WholeParams \cup FractionalParams

EventPool ==
    { Event("MARKET_CRASH", AgeNow + 1, 0, 40),
      Event("MARKET_CRASH", AgeNow + 1, 1, 71),
      Event("ONE_TIME_EXPENSE", AgeNow + 1, 1, 150),
      Event("RECURRING_EXPENSE", AgeNow + 1, 2, 60),
      Event("CONTRIBUTION_STOP", AgeNow + 2, 1, 0),
      Event("RETURN_REDUCTION", AgeNow + 1, 2, 50),
      Event("RETIREMENT_EARLY", AgeNow + 1, 1, 1),
      Event("RETIREMENT_EARLY", AgeNow + 3, 0, -1) }

EventLists == UNION { [1..n -> EventPool] : n \in 0..MaxEvents }

LifeExpectancies == (AgeNow - 1)..(AgeNow + MaxYears)

----------------------------------------------------------------------------
(* Values of the variables a specification does not use *)

NoAcc ==
    [effectiveRetirementAge |-> 0, currentYear |-> 0,
     annualPriceAppreciation |-> RatInt(0),
     annualDividendYield |-> RatInt(0), currentBalance |-> 0,
     totalContributed |-> 0, totalAppreciation |-> 0, totalDividends |-> 0,
     mortgageBalance |-> 0, mortgageMonthlyPayment |-> 0,
     monthsRemainingOnMortgage |-> 0, effectiveYield |-> RatInt(0)]

NoStats ==
    [weightedReturn |-> RatInt(0), weightedYield |-> RatInt(0),
     weightedVolatility |-> RatInt(0), totalValue |-> 0]

ProjIdle ==
    /\ params = MakeParams(AgeNow, AgeNow, 0, <<0, 0>>, 0, NoMortgage,
                           CHOOSE r \in ReturnChoices :
                               r.useManualReturn /\ r.manualReturnRate = 0)
    /\ events = <<>>
    /\ lifeExpectancy = 0
    /\ pc = "idle"
    /\ year = 0
    /\ acc = NoAcc
    /\ results = <<>>

StressIdle ==
    /\ spc = "idle"
    /\ baselineBalance = 0
    /\ outcomes = <<>>
    /\ calls = <<>>

PortIdle ==
    /\ assets = <<>>
    /\ ppc = "idle"
    /\ stats = NoStats

PmtIdle ==
    /\ pmtIn = [rate |-> 0, nper |-> 0, pv |-> 0]
    /\ pmtOut = Pending

ConvIdle ==
    /\ convIn = [amount |-> 0, currency |-> "HKD"]
    /\ convOut = Pending

\* One call is made, in the year CurrentYear
RepeatIdle ==
    /\ now = CurrentYear
    /\ callNo = 1
    /\ previous = <<>>

McIdle ==
    /\ mcIn = [params |-> MakeParams(AgeNow, AgeNow, 0, <<0, 0>>, 0,
                                     NoMortgage,
                                     CHOOSE r \in ReturnChoices :
                                         r.useManualReturn
                                         /\ r.manualReturnRate = 0),
               simulations |-> 0]
    /\ mpc = "idle"
    /\ trial = 0
    /\ yr = 0
    /\ trialBalance = 0
    /\ resultsByYear = <<>>
    /\ finalResults = <<>>
    /\ draws = <<>>

GapIdle ==
    /\ gapIn = [realStats |-> NoStats, simulatedStats |-> NoStats,
                yearsToRetirement |-> 0]
    /\ gapOut = <<>>

\* The monthly loop is not followed month by month
MonthIdle ==
    /\ month = 0
    /\ extraInvestFromMortgage = 0

\* The calls modelled after the first four are not made
RestIdle == ConvIdle /\ RepeatIdle /\ McIdle /\ GapIdle /\ MonthIdle

----------------------------------------------------------------------------
(* calculateCompoundInterest, step by step *)

Init ==
    /\ params \in ProjectionParams
    /\ events \in EventLists
    /\ lifeExpectancy \in LifeExpectancies
    /\ pc = "call"
    /\ year = 0
    /\ acc = NoAcc
    /\ results = <<>>
    /\ StressIdle /\ PortIdle /\ PmtIdle /\ RestIdle

\* Lines 83-112: nothing to simulate, the empty result is returned
EnterEmpty ==
    /\ pc = "call"
    /\ NoProjection(lifeExpectancy - params.currentAge)
    /\ results' = <<>>
    /\ pc' = "done"
    /\ UNCHANGED <<params, events, lifeExpectancy, year, acc>>
    /\ UNCHANGED <<stressVars, portVars, pmtVars, restVars>>

\* Lines 83-149: the locals are set and the year-0 record is pushed
Enter ==
    /\ pc = "call"
    /\ ~NoProjection(lifeExpectancy - params.currentAge)
    /\ acc' = InitialAcc(params, events)
    /\ results' = <<InitialRecord(params, acc')>>
    /\ year' = 1
    /\ pc' = "loop"
    /\ UNCHANGED <<params, events, lifeExpectancy>>
    /\ UNCHANGED <<stressVars, portVars, pmtVars, restVars>>

\* Lines 151-250: one iteration of the year loop
YearStep ==
    /\ pc = "loop"
    /\ LoopContinues(year, lifeExpectancy - params.currentAge)
    /\ acc' = YearBody(params, events, acc, year)
    /\ results' = Append(results, YearRecord(params, acc', year))
    /\ year' = year + 1
    /\ UNCHANGED <<params, events, lifeExpectancy, pc>>
    /\ UNCHANGED <<stressVars, portVars, pmtVars, restVars>>

\* Line 252: return results
Return ==
    /\ pc = "loop"
    /\ ~LoopContinues(year, lifeExpectancy - params.currentAge)
    /\ pc' = "done"
    /\ UNCHANGED <<params, events, lifeExpectancy, year, acc, results>>
    /\ UNCHANGED <<stressVars, portVars, pmtVars, restVars>>

Next == EnterEmpty \/ Enter \/ YearStep \/ Return

Spec == Init /\ [][Next]_vars

----------------------------------------------------------------------------
(* runStressTests: each calculateCompoundInterest call it makes runs through *)
(* the steps above                                                           *)

StressAges == {39, 58, 74, 82, 84, 85}

StressMortgages ==
    { NoMortgage,
      [hasMortgage |-> TRUE, remainingPrincipal |-> M(24000),
       annualRate |-> 0, remainingYears |-> RatInt(1),
       monthlyPayment |-> M(2000),
       reinvestAfterPayoff |-> TRUE] }

StressParams ==
    { MakeParams(age, retire, principal, c, 0, m,
                 CHOOSE r \in ReturnChoices :
                     r.useManualReturn /\ r.manualReturnRate = 0) :
        age \in StressAges, retire \in {65, 90},
        principal \in {M(-1000), M(1000000), M(4000000)},
        c \in { <<0, 0>>, <<M(1000), M(5000)>> },
        m \in StressMortgages }

InitStress ==
    /\ params \in StressParams
    /\ events = <<>>
    /\ lifeExpectancy = 0
    /\ pc = "idle"
    /\ year = 0
    /\ acc = NoAcc
    /\ results = <<>>
    /\ spc = "start"
    /\ baselineBalance = 0
    /\ outcomes = <<>>
    /\ calls = <<>>
    /\ PortIdle /\ PmtIdle /\ RestIdle

\* calculateCompoundInterest(params, ev, le) is entered
CallProjection(ev, le) ==
    /\ events' = ev
    /\ lifeExpectancy' = le
    /\ pc' = "call"
    /\ year' = 0
    /\ acc' = NoAcc
    /\ results' = <<>>
    /\ UNCHANGED params

\* The call returned: its arguments and result are logged
Returned ==
    /\ pc = "done"
    /\ pc' = "idle"
    /\ calls' = Append(calls, [events |-> events,
                               lifeExpectancy |-> lifeExpectancy,
                               results |-> results])
    /\ UNCHANGED <<params, events, lifeExpectancy, year, acc, results>>

\* Line 303: calculateCompoundInterest(params, [], 85) is called
StressCallBaseline ==
    /\ spc = "start"
    /\ CallProjection(<<>>, 85)
    /\ spc' = "baseline"
    /\ UNCHANGED <<baselineBalance, outcomes, calls, portVars, pmtVars, restVars>>

\* Line 304: baselineBalance from the baseline results
StressBaseline ==
    /\ spc = "baseline"
    /\ Returned
    /\ baselineBalance' = LastBalance(results)
    /\ spc' = "map"
    /\ UNCHANGED <<outcomes, portVars, pmtVars, restVars>>

\* The scenario scenarios.map is at
NextScenario == Scenarios(params)[Len(outcomes) + 1]

\* Lines 384-385: the callback calls calculateCompoundInterest
StressCallScenario ==
    /\ spc = "map"
    /\ Len(outcomes) < Len(Scenarios(params))
    /\ CallProjection(NextScenario.events, ScenarioLifeExpectancy(NextScenario))
    /\ spc' = "scenario"
    /\ UNCHANGED <<baselineBalance, outcomes, calls, portVars, pmtVars, restVars>>

\* Lines 386-412: the callback's result for the scenario
StressMap ==
    /\ spc = "scenario"
    /\ Returned
    /\ outcomes' = Append(outcomes,
                          OutcomeOf(NextScenario, results, baselineBalance))
    /\ spc' = "map"
    /\ UNCHANGED <<baselineBalance, portVars, pmtVars, restVars>>

\* Line 413: the mapped array is returned
StressReturn ==
    /\ spc = "map"
    /\ Len(outcomes) = Len(Scenarios(params))
    /\ spc' = "done"
    /\ UNCHANGED <<baselineBalance, outcomes, calls, projVars, portVars,
                   pmtVars, restVars>>

NextStress ==
    \/ StressCallBaseline \/ StressBaseline \/ StressCallScenario
    \/ StressMap \/ StressReturn
    \/ EnterEmpty \/ Enter \/ YearStep \/ Return

SpecStress == InitStress /\ [][NextStress]_vars

----------------------------------------------------------------------------
(* calculatePortfolioStats *)

MaxAssets == 3

\* Holdings: plain, foreign, empty, of an unknown currency, sold short
AssetPool ==
    { Asset(M(1), 1, "HKD", 6, 2, 10),
      Asset(M(1), 2, "USD", 9, 0, 20),
      Asset(M(5), 0, "HKD", 4, 4, 5),
      Asset(0, 3, "", 3, 1, 0),
      Asset(M(1), -1, "HKD", 6, 2, 10),
      Asset(M(2), 1, "SGD", 12, 3, 30) }

\* The allocation the holdings show before the call, in percent
ShownAllocations == {0, 50}

\* The list f with the shown allocation on each holding
Shown(f, shown) ==
    [i \in 1..Len(f) |-> [f[i] EXCEPT !.allocation = RatInt(shown)]]

AssetLists ==
    { Shown(f, shown) :
        f \in UNION { [1..k -> AssetPool] : k \in 0..MaxAssets },
        shown \in ShownAllocations }

InitPortfolio ==
    /\ assets \in AssetLists
    /\ ppc = "call"
    /\ stats = NoStats
    /\ ProjIdle /\ StressIdle /\ PmtIdle /\ RestIdle

\* Lines 28-71: the call returns the statistics and leaves the allocations
\* it wrote on the assets
PortfolioStats ==
    /\ ppc = "call"
    /\ stats' = calculatePortfolioStats(assets).stats
    /\ assets' = calculatePortfolioStats(assets).assets
    /\ ppc' = "done"
    /\ UNCHANGED <<projVars, stressVars, pmtVars, restVars>>

NextPortfolio == PortfolioStats

SpecPortfolio == InitPortfolio /\ [][NextPortfolio]_vars

----------------------------------------------------------------------------
(* calculatePMT *)

MaxPeriods == 12

\* Annual rates in percent: a monthly rate of 0, 1 and -2
PmtRates == {0, 1200, -2400}

PmtPrincipals == {M(-100), 0, 1, M(1), M(3), M(100), M(120000)}

InitPMT ==
    /\ pmtIn \in [rate : PmtRates, nper : 0..MaxPeriods, pv : PmtPrincipals]
    /\ pmtOut = Pending
    /\ ProjIdle /\ StressIdle /\ PortIdle /\ RestIdle

\* Lines 21-25
PMT ==
    /\ pmtOut = Pending
    /\ pmtOut' = calculatePMT(pmtIn.rate, pmtIn.nper, pmtIn.pv)
    /\ UNCHANGED <<pmtIn, projVars, stressVars, portVars, restVars>>

NextPMT == PMT

SpecPMT == InitPMT /\ [][NextPMT]_vars

----------------------------------------------------------------------------
(* convertToHKD on its own *)

\* Currency strings handed to convertToHKD: the table's keys, strings that
\* are no property of the table, and names the table inherits
CurrencyCodes == Currencies \cup {"", "SGD", "AUD", "hkd"} \cup Inherited

ConvAmounts ==
    {M(-100), -1, 0, 1, 33, M(1), M(9), M(100), M(250), M(1000)}

coreVars == <<projVars, stressVars, portVars, pmtVars, monthVars>>

InitConvert ==
    /\ convIn \in [amount : ConvAmounts, currency : CurrencyCodes]
    /\ convOut = Pending
    /\ ProjIdle /\ StressIdle /\ PortIdle /\ PmtIdle /\ RepeatIdle /\ McIdle
    /\ GapIdle /\ MonthIdle

\* Lines 15-18: the call returns amount * rate
Convert ==
    /\ convOut = Pending
    /\ convOut' = convertToHKD(convIn.amount, convIn.currency)
    /\ UNCHANGED <<convIn, coreVars, repeatVars, mcVars, gapVars>>

NextConvert == Convert

SpecConvert == InitConvert /\ [][NextConvert]_vars

----------------------------------------------------------------------------
(* Properties of calculateCompoundInterest *)

\* The projection has returned
Done == pc = "done"

\* results holds one record per age from currentAge to lifeExpectancy
OnePerAge ==
    /\ Len(results) = lifeExpectancy - params.currentAge + 1
    /\ \A i \in 1..Len(results) : results[i].age = params.currentAge + i - 1

\* C1 (amended): when lifeExpectancy > currentAge, calculateCompoundInterest
\* returns exactly lifeExpectancy - currentAge + 1 records, one per integer
\* age from currentAge to lifeExpectancy, consecutive ages one apart.
C1_OnePerAge ==
    (Done /\ lifeExpectancy > params.currentAge) => OnePerAge

\* C1 as stated: the same for every lifeExpectancy >= currentAge; it fails
\* at lifeExpectancy = currentAge, where the result is empty.
C1_AsStated ==
    (Done /\ lifeExpectancy >= params.currentAge) => OnePerAge

\* A returned projection of at least three years, with events
C1_Reached ==
    /\ Done
    /\ lifeExpectancy >= params.currentAge + 3
    /\ Len(results) >= 4
    /\ events # <<>>

\* C2: when lifeExpectancy - currentAge <= 0, calculateCompoundInterest
\* returns the empty sequence (no year-0 record), whatever the events and
\* the mortgage.
C2_EmptyResult ==
    (Done /\ lifeExpectancy - params.currentAge <= 0) => results = <<>>

\* An empty projection returned for a year count of 0, with events and a
\* mortgage in the input
C2_Reached ==
    /\ Done
    /\ lifeExpectancy = params.currentAge
    /\ events # <<>>
    /\ params.mortgage.hasMortgage
    /\ results = <<>>

\* netWorth and netWorthReal are the differences of the emitted fields
NetWorthIdentity(r) ==
    /\ r.netWorth = r.totalBalance - r.totalLiabilities
    /\ r.netWorthReal = r.totalBalanceReal - r.totalLiabilitiesReal

\* C3 as stated: in every record of every projection, netWorth =
\* totalBalance - totalLiabilities and netWorthReal = totalBalanceReal -
\* totalLiabilitiesReal exactly. It fails: the three fields are rounded
\* separately.
C3_AsStated ==
    \A i \in 1..Len(results) : NetWorthIdentity(results[i])

----------------------------------------------------------------------------
(* Properties of runStressTests *)

\* The projection of the i-th scenario: the call after the baseline's
ProjectionOf(i) == calls[i + 1].results

\* The indices of the records of res with a negative balance
Negative(res) == { k \in 1..Len(res) : res[k].totalBalance < 0 }

\* o reports the first negative record of res, or none
ReportsFirstNegative(o, res) ==
    /\ o.isBankrupt <=> Negative(res) # {}
    /\ o.isBankrupt =>
         \E k \in Negative(res) :
            /\ \A j \in Negative(res) : k <= j
            /\ o.bankruptAge = <<res[k].age>>
    /\ ~o.isBankrupt => o.bankruptAge = <<>>

\* C4: for every outcome of runStressTests, isBankrupt holds iff some record
\* of the scenario's projection (any year, year 0 included) has
\* totalBalance < 0; bankruptAge is then the age of the first such record,
\* and is absent otherwise.
C4_Bankrupt ==
    \A i \in 1..Len(outcomes) :
        ReportsFirstNegative(outcomes[i], ProjectionOf(i))

\* All nine outcomes returned, one bankrupt in a later year although its
\* last balance is not negative, and one not bankrupt
C4_Reached ==
    /\ spc = "done"
    /\ \E i \in 1..Len(outcomes) :
          /\ outcomes[i].isBankrupt
          /\ outcomes[i].finalBalance >= 0
          /\ outcomes[i].bankruptAge # <<params.currentAge>>
    /\ \E i \in 1..Len(outcomes) : ~outcomes[i].isBankrupt

\* finalBalance / baselineBalance < n / d, the ratio being 0 when the
\* baseline is not positive
RatioBelow(finalBalance, baseline, n, d) ==
    IF baseline > 0 THEN d * finalBalance < n * baseline ELSE 0 < n

\* The status the classification rule gives the outcome o
Classified(o) ==
    IF o.scenario.id = "longevity" /\ o.finalBalance > 0 THEN "SAFE"
    ELSE IF \/ o.isBankrupt
            \/ o.finalBalance <= 0
            \/ RatioBelow(o.finalBalance, o.baselineBalance, 1, 2)
         THEN "DANGER"
    ELSE IF RatioBelow(o.finalBalance, o.baselineBalance, 4, 5)
         THEN "WARNING"
    ELSE "SAFE"

\* C5: with ratio = finalBalance / baselineBalance when baselineBalance > 0
\* and 0 otherwise, status is DANGER if isBankrupt or finalBalance <= 0 or
\* ratio < 0.5, otherwise WARNING if ratio < 0.8, otherwise SAFE; except
\* that the longevity scenario is SAFE whenever its finalBalance > 0.
C5_Classification ==
    \A i \in 1..Len(outcomes) : outcomes[i].status = Classified(outcomes[i])

\* All nine outcomes returned, the three statuses among them
C5_Reached ==
    /\ spc = "done"
    /\ Len(outcomes) = 9
    /\ \A st \in {"SAFE", "WARNING", "DANGER"} :
          \E i \in 1..Len(outcomes) : outcomes[i].status = st

\* C6 as stated: in every outcome, over all nine scenarios and for any
\* params (a negative initialPrincipal included), isBankrupt implies
\* status = DANGER. It fails for the longevity scenario.
C6_AsStated ==
    \A i \in 1..Len(outcomes) :
        outcomes[i].isBankrupt => outcomes[i].status = "DANGER"

\* The totalBalance of the last record of res, 0 when res is empty
FinalOf(res) == IF Len(res) = 0 THEN 0 ELSE res[Len(res)].totalBalance

\* The horizon up to which the baseline is compared with a direct call
DirectYears == 3

\* The first call of runStressTests is calculateCompoundInterest(params,
\* [], 85), and baselineBalance is taken from its last record
BaselineFromDirectCall ==
    calls # <<>> =>
        /\ calls[1].events = <<>>
        /\ calls[1].lifeExpectancy = 85
        /\ 85 - params.currentAge <= DirectYears =>
              calls[1].results = calculateCompoundInterest(params, <<>>, 85)
        /\ baselineBalance = FinalOf(calls[1].results)

\* C7: every outcome of runStressTests(params) carries the same
\* baselineBalance, the totalBalance of the last record of
\* calculateCompoundInterest(params, [], 85) (0 when that is empty); its
\* difference is finalBalance - baselineBalance, and its finalBalance is
\* the totalBalance of the last record of the scenario's own projection.
C7_Baseline ==
    /\ BaselineFromDirectCall
    /\ \A i \in 1..Len(outcomes) :
          /\ outcomes[i].baselineBalance = baselineBalance
          /\ outcomes[i].finalBalance = FinalOf(ProjectionOf(i))
          /\ outcomes[i].difference =
                outcomes[i].finalBalance - outcomes[i].baselineBalance

\* All nine outcomes returned over a positive baseline, some scenario
\* ending below it and some ending level with it
C7_Reached ==
    /\ spc = "done"
    /\ Len(outcomes) = 9
    /\ baselineBalance > 0
    /\ \E i \in 1..Len(outcomes) : outcomes[i].difference < 0
    /\ \E i \in 1..Len(outcomes) : outcomes[i].difference = 0
    /\ ProjectionOf(1) # calls[1].results

----------------------------------------------------------------------------
(* Properties of calculatePortfolioStats *)

\* The base-currency value of a holding, from its own fields
BaseValue(asset) ==
    MulRat(asset.currentPrice * asset.quantity, ExchangeRate(asset.currency))

RECURSIVE BaseTotalTo(_, _)
\* The total base-currency value of the first n holdings
BaseTotalTo(as, n) ==
    IF n = 0 THEN 0 ELSE BaseTotalTo(as, n - 1) + BaseValue(as[n])

\* The total base-currency value of the holdings
BaseTotal(as) == BaseTotalTo(as, Len(as))

\* C8: on an empty holdings list, or one whose total base-currency value is
\* exactly 0, calculatePortfolioStats returns weightedReturn =
\* weightedYield = weightedVolatility = totalValue = 0 and writes no
\* holding's allocation: the holdings are as they were.
C8_ZeroTotal ==
    [][(ppc = "call" /\ ppc' = "done" /\ BaseTotal(assets) = 0) =>
           /\ stats'.weightedReturn = <<0, 1>>
           /\ stats'.weightedYield = <<0, 1>>
           /\ stats'.weightedVolatility = <<0, 1>>
           /\ stats'.totalValue = 0
           /\ assets' = assets]_vars

\* The call returned for holdings that cancel to a total of 0, with an
\* allocation shown on them from before
C8_Reached ==
    /\ ppc = "done"
    /\ Len(assets) >= 2
    /\ BaseValue(assets[1]) # 0
    /\ BaseTotal(assets) = 0
    /\ assets[1].allocation = RatInt(50)

\* An allocation (a percentage of one decimal) in tenths of a percent
Tenths(asset) == asset.allocation[1] * (10 \div asset.allocation[2])

RECURSIVE TenthsTo(_, _)
\* The allocations of the first n holdings summed, in tenths of a percent
TenthsTo(as, n) == IF n = 0 THEN 0 ELSE TenthsTo(as, n - 1) + Tenths(as[n])

\* The holdings are not negative and their total is positive
PositivePortfolio(as) ==
    /\ \A i \in 1..Len(as) : as[i].quantity >= 0 /\ as[i].currentPrice >= 0
    /\ BaseTotal(as) > 0

\* allocation is the share 100 * value / total to the nearest tenth
NearestTenth(asset, total) ==
    /\ asset.allocation[2] \in {1, 2, 5, 10}
    /\ 2 * Abs(Tenths(asset) * total - 1000 * BaseValue(asset)) <= total

\* C9: for holdings with quantity >= 0, currentPrice >= 0 and a total
\* base-currency value V > 0, after calculatePortfolioStats each holding's
\* allocation is its share of V in percent rounded to one decimal, and the
\* allocations sum to 100 within 0.05 times the number of holdings.
C9_Allocation ==
    (ppc = "done" /\ PositivePortfolio(assets)) =>
        /\ \A i \in 1..Len(assets) :
              NearestTenth(assets[i], BaseTotal(assets))
        /\ 2 * Abs(TenthsTo(assets, Len(assets)) - 1000)
              <= Len(assets)

\* The call returned for three holdings of a third each: the allocations,
\* 33.3 each, sum to 99.9
C9_Reached ==
    /\ ppc = "done"
    /\ PositivePortfolio(assets)
    /\ Len(assets) = 3
    /\ \A i \in 1..Len(assets) : Tenths(assets[i]) = 333

----------------------------------------------------------------------------
(* Properties of calculatePMT *)

\* C10: calculatePMT(0, n, P) returns P / n for every n > 0 and every P:
\* a number, the amount nearest to P / n, and P / n itself when n divides P.
C10_ZeroRate ==
    (pmtOut # Pending /\ pmtIn.rate = 0 /\ pmtIn.nper > 0) =>
        /\ pmtOut.kind = "number"
        /\ 2 * Abs(pmtOut.v * pmtIn.nper - pmtIn.pv) <= pmtIn.nper
        /\ pmtIn.pv % pmtIn.nper = 0 => pmtOut.v * pmtIn.nper = pmtIn.pv

\* calculatePMT(0, 12, 3) returned 0.25
C10_Reached ==
    /\ pmtIn = [rate |-> 0, nper |-> 12, pv |-> M(3)]
    /\ pmtOut = Num(M(3) \div 12)

----------------------------------------------------------------------------
(* calculateCompoundInterest called twice with the same arguments *)

\* Years the calendar advances at most
MaxTicks == 1

\* Event lists of the repeated call
RepeatEvents == {<<>>} \cup { <<e>> : e \in EventPool }

InitRepeat ==
    /\ params \in ProjectionParams
    /\ events \in RepeatEvents
    /\ lifeExpectancy \in LifeExpectancies
    /\ pc = "call"
    /\ year = 0
    /\ acc = NoAcc
    /\ results = <<>>
    /\ RepeatIdle
    /\ StressIdle /\ PortIdle /\ PmtIdle /\ ConvIdle /\ McIdle /\ GapIdle
    /\ MonthIdle

\* The calendar passes into the next year
Tick ==
    /\ now < CurrentYear + MaxTicks
    /\ now' = now + 1
    /\ UNCHANGED <<callNo, previous, coreVars, convVars, mcVars, gapVars>>

\* The first call has returned; the caller keeps what it returned and calls
\* again with the same params, events and lifeExpectancy
CallAgain ==
    /\ pc = "done"
    /\ callNo = 1
    /\ previous' = results
    /\ callNo' = 2
    /\ pc' = "call"
    /\ year' = 0
    /\ acc' = NoAcc
    /\ results' = <<>>
    /\ UNCHANGED <<params, events, lifeExpectancy, now>>
    /\ UNCHANGED <<stressVars, portVars, pmtVars, convVars, mcVars, gapVars,
                   monthVars>>

NextRepeat ==
    \/ EnterEmpty \/ Enter \/ YearStep \/ Return
    \/ Tick \/ CallAgain

SpecRepeat == InitRepeat /\ [][NextRepeat]_vars

----------------------------------------------------------------------------
(* runMonteCarloSimulation, step by step *)

\* Years from currentAge to retirementAge at most
MaxMCYears == 2
\* Trials at most
MaxTrials == 3

\* The values randn_bm returns: any real number; these stand for a draw
\* three standard deviations below the mean and one a deviation above it
ZChoices == {RatInt(-3), RatInt(1)}

\* One holding with an expected return of 10% and a volatility of 50%
Volatile == <<Asset(M(10), 10, "HKD", 10, 0, 50)>>

\* useManualReturn, manualReturnRate, manualDividendYield, assets
MCReturns ==
    { [useManualReturn |-> TRUE, manualReturnRate |-> 0,
       manualDividendYield |-> 0, assets |-> <<>>],
      [useManualReturn |-> TRUE, manualReturnRate |-> 0,
       manualDividendYield |-> 0, assets |-> Volatile],
      [useManualReturn |-> FALSE, manualReturnRate |-> 0,
       manualDividendYield |-> 0, assets |-> Volatile] }

MCPrincipals == {M(-100), M(100), M(100) + Scale \div 2}

MCParams ==
    { MakeParams(AgeNow, retire, principal, c, 0, NoMortgage, r) :
        retire \in (AgeNow - 2)..(AgeNow + MaxMCYears),
        principal \in MCPrincipals, c \in Contributions, r \in MCReturns }

InitMonteCarlo ==
    /\ mcIn \in [params : MCParams, simulations : 1..MaxTrials]
    /\ mpc = "call"
    /\ trial = 0
    /\ yr = 0
    /\ trialBalance = 0
    /\ resultsByYear = <<>>
    /\ finalResults = <<>>
    /\ draws = <<>>
    /\ ProjIdle /\ StressIdle /\ PortIdle /\ PmtIdle
    /\ ConvIdle /\ RepeatIdle /\ GapIdle /\ MonthIdle

\* years = params.retirementAge - params.currentAge
Years == mcIn.params.retirementAge - mcIn.params.currentAge

\* Lines 264-273: the locals are set and the trial loop is entered
MCEnter ==
    /\ mpc = "call"
    /\ resultsByYear' = EmptyByYear(Years)
    /\ trial' = 0
    /\ mpc' = "trial"
    /\ UNCHANGED <<mcIn, yr, trialBalance, finalResults, draws>>
    /\ UNCHANGED <<coreVars, convVars, repeatVars, gapVars>>

\* Lines 275-277: a trial starts; resultsByYear[0] is undefined in an
\* empty array, and the push on it throws a TypeError
MCTrialThrows ==
    /\ mpc = "trial"
    /\ trial < mcIn.simulations
    /\ resultsByYear = <<>>
    /\ trialBalance' = mcIn.params.initialPrincipal
    /\ mpc' = "TypeError"
    /\ UNCHANGED <<mcIn, trial, yr, resultsByYear, finalResults, draws>>
    /\ UNCHANGED <<coreVars, convVars, repeatVars, gapVars>>

\* Lines 275-277: a trial starts with the initial principal as year 0
MCTrial ==
    /\ mpc = "trial"
    /\ trial < mcIn.simulations
    /\ resultsByYear # <<>>
    /\ trialBalance' = mcIn.params.initialPrincipal
    /\ resultsByYear' = Push(resultsByYear, 0, trialBalance')
    /\ yr' = 1
    /\ mpc' = "year"
    /\ UNCHANGED <<mcIn, trial, finalResults, draws>>
    /\ UNCHANGED <<coreVars, convVars, repeatVars, gapVars>>

\* Lines 279-285: one year of the trial, with the value randn_bm returns
MCYear ==
    /\ mpc = "year"
    /\ yr <= Years
    /\ \E z \in ZChoices :
        /\ draws' = Append(draws, z)
        /\ trialBalance' = NextBalance(mcIn.params, trialBalance, z)
    /\ resultsByYear' = Push(resultsByYear, yr, trialBalance')
    /\ yr' = yr + 1
    /\ UNCHANGED <<mcIn, mpc, trial, finalResults>>
    /\ UNCHANGED <<coreVars, convVars, repeatVars, gapVars>>

\* Line 275: the year loop is over, s++
MCTrialEnd ==
    /\ mpc = "year"
    /\ yr > Years
    /\ trial' = trial + 1
    /\ mpc' = "trial"
    /\ UNCHANGED <<mcIn, yr, trialBalance, resultsByYear, finalResults, draws>>
    /\ UNCHANGED <<coreVars, convVars, repeatVars, gapVars>>

\* Lines 288-299: the trials are over; each year's balances are sorted and
\* its three percentiles returned
MCReturn ==
    /\ mpc = "trial"
    /\ trial >= mcIn.simulations
    /\ finalResults' = FinalResults(mcIn.params, mcIn.simulations, resultsByYear)
    /\ resultsByYear' = SortedByYear(resultsByYear)
    /\ mpc' = "done"
    /\ UNCHANGED <<mcIn, trial, yr, trialBalance, draws>>
    /\ UNCHANGED <<coreVars, convVars, repeatVars, gapVars>>

NextMonteCarlo ==
    \/ MCEnter \/ MCTrialThrows \/ MCTrial \/ MCYear \/ MCTrialEnd
    \/ MCReturn

SpecMonteCarlo == InitMonteCarlo /\ [][NextMonteCarlo]_vars

----------------------------------------------------------------------------
(* runMonteCarloSimulation called twice with the same arguments *)

InitTwice ==
    /\ mcIn \in [params : MCParams, simulations : {1}]
    /\ mpc = "call"
    /\ trial = 0
    /\ yr = 0
    /\ trialBalance = 0
    /\ resultsByYear = <<>>
    /\ finalResults = <<>>
    /\ draws = <<>>
    /\ ProjIdle /\ StressIdle /\ PortIdle /\ PmtIdle
    /\ ConvIdle /\ RepeatIdle /\ GapIdle /\ MonthIdle

\* The first call has returned; the caller keeps what it returned and calls
\* again with the same params and simulations.  Math.random, which randn_bm
\* reads, goes on from where the first call left it.
MCAgain ==
    /\ mpc = "done"
    /\ callNo = 1
    /\ previous' = finalResults
    /\ callNo' = 2
    /\ mpc' = "call"
    /\ trial' = 0
    /\ yr' = 0
    /\ trialBalance' = 0
    /\ resultsByYear' = <<>>
    /\ finalResults' = <<>>
    /\ UNCHANGED <<mcIn, draws, now>>
    /\ UNCHANGED <<coreVars, convVars, gapVars>>

NextTwice ==
    \/ MCEnter \/ MCTrialThrows \/ MCTrial \/ MCYear \/ MCTrialEnd
    \/ MCReturn
    \/ Tick \/ MCAgain

SpecTwice == InitTwice /\ [][NextTwice]_vars

----------------------------------------------------------------------------
(* calculateGapAnalysis on its own *)

\* yearsToRetirement = Math.max(0, retirementAge - currentAge) of the caller
GapYears == {0, 1, 2}

\* weightedReturn and weightedYield, in percent
GapRates == {<<0, 0>>, <<6, 4>>, <<20, 5>>, <<-30, -20>>}

GapStats ==
    { [weightedReturn |-> RatInt(r[1]), weightedYield |-> RatInt(r[2]),
       weightedVolatility |-> RatInt(0), totalValue |-> v] :
        r \in GapRates, v \in {0, M(100), M(200) + 1} }

InitGap ==
    /\ gapIn \in [realStats : GapStats, simulatedStats : GapStats,
                   yearsToRetirement : GapYears]
    /\ gapOut = <<>>
    /\ ProjIdle /\ StressIdle /\ PortIdle /\ PmtIdle
    /\ ConvIdle /\ RepeatIdle /\ McIdle /\ MonthIdle

\* Lines 416-439: the call returns its GapAnalysisResult
GapAnalysis ==
    /\ gapOut = <<>>
    /\ gapOut' = <<calculateGapAnalysis(gapIn.realStats, gapIn.simulatedStats,
                                        gapIn.yearsToRetirement)>>
    /\ UNCHANGED <<gapIn, coreVars, convVars, repeatVars, mcVars>>

NextGap == GapAnalysis

SpecGap == InitGap /\ [][NextGap]_vars

----------------------------------------------------------------------------
(* C11 *)

\* The rate the table holds for a known code, and 1 for every other string
TableRate(currency) ==
    IF currency \in Currencies THEN ExchangeRate(currency) ELSE <<1, 1>>

\* C11: convertToHKD returns the amount times the table's rate for a known
\* currency code and the amount unchanged for any code that is not in the
\* table.  Violated: a code that names an inherited property of the table
\* ("constructor", "toString") is not in the table and gives NaN.
C11_AsStated ==
    convOut # Pending =>
        convOut = Num(MulRat(convIn.amount, TableRate(convIn.currency)))

----------------------------------------------------------------------------
(* C12 *)

\* No contributions, zero rates, no inflation, no events, no mortgage
ZeroCase ==
    /\ params.monthlyContribution = 0
    /\ params.annualExtraContribution = 0
    /\ AnnualRates(params) = [appreciation |-> RatInt(0), yield |-> RatInt(0)]
    /\ params.inflationRate = 0
    /\ events = <<>>
    /\ ~params.mortgage.hasMortgage

\* w is the whole amount nearest to a, the upper one of two equally near
NearestWhole(w, a) ==
    w % Scale = 0 /\ 2 * w - Scale <= 2 * a /\ 2 * a < 2 * w + Scale

\* The record is the one of a balance that stayed at the initial principal:
\* as it is in year 0, to the nearest whole unit in the years after
Unchanged(r, y) ==
    /\ IF y = 0 THEN r.totalBalance = params.initialPrincipal
       ELSE NearestWhole(r.totalBalance, params.initialPrincipal)
    /\ r.totalBalanceReal = r.totalBalance
    /\ r.totalAppreciation = 0
    /\ r.totalDividends = 0
    /\ r.netWorth = r.totalBalance - r.totalLiabilities

\* C12 (amended): in a projection without contributions, with zero
\* appreciation and yield, no inflation, no events and no mortgage, the
\* year-0 record has totalBalance = totalBalanceReal = initialPrincipal and
\* every later record has totalBalance = totalBalanceReal = initialPrincipal
\* rounded to the nearest whole unit; every record has totalAppreciation =
\* totalDividends = 0 and netWorth = totalBalance - totalLiabilities.
C12_ZeroCase ==
    ZeroCase => \A i \in 1..Len(results) : Unchanged(results[i], i - 1)

\* C12 as stated: every record has totalBalance = totalBalanceReal =
\* initialPrincipal.  Violated by an initial principal of 100.5, which the
\* records of the years from 1 on give as 101.
C12_AsStated ==
    ZeroCase =>
        \A i \in 1..Len(results) :
            /\ results[i].totalBalance = params.initialPrincipal
            /\ results[i].totalBalanceReal = params.initialPrincipal
            /\ results[i].totalAppreciation = 0
            /\ results[i].totalDividends = 0
            /\ results[i].netWorth
                   = results[i].totalBalance - results[i].totalLiabilities

\* A zero-case projection of a fractional principal has returned all the
\* records of MaxYears years
C12_Reached ==
    /\ ZeroCase /\ Done
    /\ Len(results) = MaxYears + 1
    /\ params.initialPrincipal % Scale # 0

----------------------------------------------------------------------------
(* C13 *)

\* C13: two calls of calculateCompoundInterest with identical params,
\* events and lifeExpectancy return equal sequences, equal in every field,
\* the year included.  Violated: line 110 reads the calendar, so a call
\* made after the turn of the year returns records with other years.
C13_AsStated == (callNo = 2 /\ Done) => results = previous

----------------------------------------------------------------------------
(* C14 *)

\* C14: for retirementAge >= currentAge and at least one trial,
\* runMonteCarloSimulation returns, without throwing, exactly
\* retirementAge - currentAge + 1 entries; entry i (from 0) has
\* age = currentAge + i, and the year-0 entry has p10 = p50 = p90 =
\* initialPrincipal rounded to the nearest whole unit.
C14_Entries ==
    Years >= 0 =>
        /\ mpc # "TypeError"
        /\ mpc = "done" =>
            /\ Len(finalResults) = Years + 1
            /\ \A i \in 1..Len(finalResults) :
                   finalResults[i].age = mcIn.params.currentAge + i - 1
            /\ NearestWhole(finalResults[1].p10, mcIn.params.initialPrincipal)
            /\ finalResults[1].p50 = finalResults[1].p10
            /\ finalResults[1].p90 = finalResults[1].p10

\* MaxTrials trials over MaxMCYears years from a fractional principal have
\* returned
C14_Reached ==
    /\ mpc = "done"
    /\ Years = MaxMCYears
    /\ mcIn.simulations = MaxTrials
    /\ mcIn.params.initialPrincipal % Scale # 0
    /\ Len(finalResults) = MaxMCYears + 1

----------------------------------------------------------------------------
(* C15 *)

\* The values randn_bm returned in the call that has just returned
LastDraws == SubSeq(draws, Len(draws) - Years + 1, Len(draws))

RECURSIVE Trajectory(_, _, _)
\* b_0 .. b_n rounded: b_0 = b, b_y = max(0, b_(y-1) * (1 + mean +
\* volatility * z_y) + 12 * monthlyContribution + annualExtraContribution)
Trajectory(p, b, zs) ==
    IF zs = <<>> THEN <<Round(b)>>
    ELSE <<Round(b)>> \o Trajectory(p, NextBalance(p, b, Head(zs)), Tail(zs))

\* The returned entries are the rounded balances of the one trajectory
SingleTrajectory ==
    LET b == Trajectory(mcIn.params, mcIn.params.initialPrincipal, LastDraws)
    IN /\ Len(finalResults) = Len(b)
       /\ \A i \in 1..Len(b) :
              /\ finalResults[i].p10 = b[i]
              /\ finalResults[i].p50 = b[i]
              /\ finalResults[i].p90 = b[i]

\* C15: with one trial the output is the single trajectory of the draws,
\* and two runs with the same random source give identical output.
\* Violated: the source is Math.random, which no argument fixes, so the
\* second run draws other values (and reads another calendar year).
C15_AsStated ==
    (mpc = "done" /\ mcIn.simulations = 1) =>
        /\ SingleTrajectory
        /\ callNo = 2 => finalResults = previous

----------------------------------------------------------------------------
(* C16 *)

\* x is the element that stands at index k (from 0) when the balances are
\* put in ascending order
RankedAt(balances, k, x) ==
    /\ \E j \in 1..Len(balances) : balances[j] = x
    /\ Cardinality({j \in 1..Len(balances) : balances[j] < x}) <= k
    /\ Cardinality({j \in 1..Len(balances) : balances[j] <= x}) > k

\* w is Math.round of the balance at Math.floor(simulations * tenths / 10)
\* of the ascending order of the balances
Percentile(balances, simulations, tenths, w) ==
    \E j \in 1..Len(balances) :
        /\ RankedAt(balances, (simulations * tenths) \div 10, balances[j])
        /\ NearestWhole(w, balances[j])

\* The entry is made of the three percentiles of the year's balances
PercentilesOf(entry, balances, simulations) ==
    /\ Percentile(balances, simulations, 1, entry.p10)
    /\ Percentile(balances, simulations, 5, entry.p50)
    /\ Percentile(balances, simulations, 9, entry.p90)

\* The return of runMonteCarloSimulation: each entry is made of the
\* percentiles of its own year's balances, as the trials pushed them
ReturnsPercentiles ==
    (mpc = "trial" /\ mpc' = "done") =>
        \A i \in 1..Len(finalResults') :
            /\ PercentilesOf(finalResults'[i], resultsByYear[i],
                             mcIn.simulations)
            /\ finalResults'[i].p10 <= finalResults'[i].p50
            /\ finalResults'[i].p50 <= finalResults'[i].p90
            /\ i > 1 => finalResults'[i].p10 >= 0

\* C16: with at least one trial, each year's p10, p50 and p90 are the
\* rounded elements at indices floor(trials * 0.1), floor(trials * 0.5) and
\* floor(trials * 0.9) of that year's own balances in ascending order;
\* hence p10 <= p50 <= p90 in every year, and all three are >= 0 in every
\* year from 1 on.
C16_Percentiles == [][ReturnsPercentiles]_vars

\* Three or more trials have returned, with three different percentiles in
\* year 2 and a p10 below the p90 in year 1
C16_Reached ==
    /\ mpc = "done"
    /\ mcIn.simulations >= 3
    /\ Len(finalResults) >= 3
    /\ finalResults[3].p10 < finalResults[3].p50
    /\ finalResults[3].p50 < finalResults[3].p90
    /\ finalResults[2].p10 < finalResults[2].p90

----------------------------------------------------------------------------
(* C18 *)

\* C18: runMonteCarloSimulation with retirementAge < currentAge and at least
\* one trial completes without raising.  Violated: the array of years is
\* empty, and the first trial's push on resultsByYear[0] throws.
C18_AsStated == Years < 0 => mpc # "TypeError"

----------------------------------------------------------------------------
(* C17 *)

\* The value of the portfolio compounded over n years at its return
Compounded(portfolio, n) ==
    MulRat(portfolio.totalValue,
           RatPow(Rat(100 + portfolio.weightedReturn[1]
                          + portfolio.weightedYield[1], 100), n))

\* The result is the one of the shortfall d over n years
GapOf(out, d, n) ==
    /\ out.shortfall = d
    /\ d <= 0 => out.suggestedConservativeAmount = 0
    /\ d > 0 =>
           /\ out.suggestedConservativeAmount
                  = MulRat(d, RatPow(Rat(1000, 1045), n))
           /\ out.suggestedConservativeAmount > 0
    /\ out.conservativeYield = Rat(45, 10)

\* C17: calculateGapAnalysis returns shortfall = FV(target) - FV(actual);
\* suggestedConservativeAmount is 0 when shortfall <= 0 and
\* shortfall / 1.045^years, which is above 0, when shortfall > 0; identical
\* target and actual statistics give shortfall = 0 and a suggestion of 0 for
\* every yearsToRetirement; conservativeYield is always 4.5.
C17_Gap ==
    gapOut # <<>> =>
        /\ GapOf(gapOut[1],
                 Compounded(gapIn.simulatedStats, gapIn.yearsToRetirement)
                     - Compounded(gapIn.realStats, gapIn.yearsToRetirement),
                 gapIn.yearsToRetirement)
        /\ gapIn.simulatedStats = gapIn.realStats =>
               /\ gapOut[1].shortfall = 0
               /\ gapOut[1].suggestedConservativeAmount = 0

\* A positive shortfall over two years has been analysed, with a suggestion
\* below the shortfall
C17_Reached ==
    /\ gapOut # <<>>
    /\ gapIn.yearsToRetirement = 2
    /\ gapOut[1].shortfall > 0
    /\ gapOut[1].suggestedConservativeAmount < gapOut[1].shortfall

----------------------------------------------------------------------------
(* C19 *)

\* The first RETIREMENT_EARLY event of the list is at index i
FirstEarlyAt(i) ==
    /\ events[i].type = "RETIREMENT_EARLY"
    /\ \A j \in 1..(i - 1) : events[j].type # "RETIREMENT_EARLY"

\* retirementAge minus the value of the first RETIREMENT_EARLY event,
\* retirementAge when there is none
ResolvedAge ==
    IF \E i \in 1..Len(events) : FirstEarlyAt(i)
    THEN params.retirementAge
             - events[CHOOSE i \in 1..Len(events) : FirstEarlyAt(i)].value
    ELSE params.retirementAge

\* A CONTRIBUTION_STOP event is active at the age
StoppedAt(age) ==
    \E i \in 1..Len(events) :
        /\ events[i].type = "CONTRIBUTION_STOP"
        /\ age >= events[i].startAge
        /\ age < events[i].startAge
                 + (IF events[i].duration = 0 THEN 1 ELSE events[i].duration)

\* What a year at the age adds to the contributed total when the saver
\* retires at ResolvedAge
ContributedAt(age) ==
    IF age >= ResolvedAge \/ StoppedAt(age) THEN 0
    ELSE 12 * params.monthlyContribution + params.annualExtraContribution

\* C19: the effective retirement age is retirementAge minus the value of
\* the first RETIREMENT_EARLY event of the list, whatever that event's
\* startAge and duration and whatever RETIREMENT_EARLY events follow it,
\* and retirementAge when there is none; it is the same in every simulated
\* year: the contributions of every year stop from that age on.
C19_EffectiveAge ==
    results # <<>> =>
        /\ acc.effectiveRetirementAge = ResolvedAge
        /\ (~params.mortgage.hasMortgage
            /\ params.initialPrincipal % Scale = 0) =>
               \A i \in 2..Len(results) :
                   results[i].totalPrincipal
                       = results[i - 1].totalPrincipal
                             + ContributedAt(results[i].age)

\* A projection over MaxYears years has returned for a saver who
\* contributes, with two RETIREMENT_EARLY events: the first brings the
\* retirement forward to the first simulated year, the second would put it
\* off; nothing is contributed in year 1
C19_Reached ==
    /\ Done
    /\ Len(results) = MaxYears + 1
    /\ params.monthlyContribution > 0
    /\ ~params.mortgage.hasMortgage
    /\ Len(events) = 2
    /\ events[1].type = "RETIREMENT_EARLY"
    /\ events[2].type = "RETIREMENT_EARLY"
    /\ events[1].value > 0
    /\ events[2].value < 0
    /\ acc.effectiveRetirementAge = params.currentAge + 1
    /\ results[2].totalPrincipal = results[1].totalPrincipal

----------------------------------------------------------------------------
(* C20 *)

\* The one-to-one maps of 1..n onto itself
Bijections(n) ==
    { f \in [1..n -> 1..n] : \A i, j \in 1..n : f[i] = f[j] => i = j }

\* The event lists that hold the events of ev in another order
Permutations(ev) ==
    { [i \in 1..Len(ev) |-> ev[f[i]]] : f \in Bijections(Len(ev)) }

\* The events that one forEach of the year loop runs over
Groups ==
    { {"MARKET_CRASH"}, {"RETURN_REDUCTION"},
      {"ONE_TIME_EXPENSE", "RECURRING_EXPENSE"}, {"RETIREMENT_EARLY"} }

\* q holds the events of each group in the order in which ev holds them
SameOrderWithinGroups(q, ev) ==
    \A types \in Groups : OfType(q, types) = OfType(ev, types)

\* ev with the events at i and i + 1 in each other's place
Exchanged(ev, i) ==
    [j \in 1..Len(ev) |->
        IF j = i THEN ev[i + 1] ELSE IF j = i + 1 THEN ev[i] ELSE ev[j]]

\* The lists made from ev by one exchange of two neighbours that keeps the
\* order within each group.  Every permutation that keeps the order within
\* each group is a chain of such exchanges.
Exchanges(ev) ==
    { q \in { Exchanged(ev, i) : i \in 1..(Len(ev) - 1) } :
        q # ev /\ SameOrderWithinGroups(q, ev) }

AtMostOneEarly == Len(OfType(events, {"RETIREMENT_EARLY"})) <= 1

\* The call has no flow but the events: no contributions, zero rates, no
\* mortgage
OnlyEvents ==
    /\ params.monthlyContribution = 0
    /\ params.annualExtraContribution = 0
    /\ AnnualRates(params) = [appreciation |-> RatInt(0), yield |-> RatInt(0)]
    /\ ~params.mortgage.hasMortgage

\* The balance of year 1 is the initial principal after the crashes of the
\* year, applied one after the other, and then the expenses of the year
CrashesThenExpenses ==
    (OnlyEvents /\ Len(results) >= 2) =>
        results[2].totalBalance =
            Round(ApplyExpenses(
                      ApplyCrashes(params.initialPrincipal,
                                   OfType(YearEvents(events, params.currentAge + 1),
                                          {"MARKET_CRASH"})),
                      OfType(YearEvents(events, params.currentAge + 1),
                             {"ONE_TIME_EXPENSE", "RECURRING_EXPENSE"})))

----------------------------------------------------------------------------
(* calculateCompoundInterest with the mortgages the form can describe *)

Mortgage(has, principal, rate, years, payment, reinvest) ==
    [hasMortgage |-> has, remainingPrincipal |-> principal,
     annualRate |-> rate, remainingYears |-> years,
     monthlyPayment |-> payment, reinvestAfterPayoff |-> reinvest]

\* Mortgages without interest whose payment is left to calculatePMT: terms
\* of 1, 1.5, 2 and 3 years, monthly payments of 0.5, 0.5, 0.125 and 0.25
PlainMortgages ==
    { Mortgage(TRUE, M(6), 0, RatInt(1), 0, FALSE),
      Mortgage(TRUE, M(9), 0, Rat(3, 2), 0, TRUE),
      Mortgage(TRUE, M(3), 0, RatInt(2), 0, TRUE),
      Mortgage(TRUE, M(9), 0, RatInt(3), 0, TRUE) }

TermMortgages ==
    PlainMortgages \cup
    { NoMortgage,
      \* 100% a month, paid down to nothing in month 4 of a 12-month term
      Mortgage(TRUE, M(12), 1200, RatInt(1), M(13), TRUE),
      \* a payment below the monthly interest
      Mortgage(TRUE, M(12), 1200, RatInt(1), M(1), FALSE),
      \* 1% a month
      Mortgage(TRUE, M(100), 12, RatInt(2), M(5), FALSE),
      \* a term of six months, 0.5 a month
      Mortgage(TRUE, M(3), 0, Rat(1, 2), 0, TRUE),
      \* nothing owed
      Mortgage(TRUE, 0, 0, RatInt(1), M(2), TRUE),
      \* 3.5 owed and no term left
      Mortgage(TRUE, M(3) + Scale \div 2, 0, RatInt(0), M(2), TRUE),
      \* the switch is off, the other fields are filled in
      Mortgage(FALSE, M(3), 0, RatInt(2), M(2), TRUE) }

\* No return at all, or 12% appreciation and 6% yield a year
TermReturns ==
    { [useManualReturn |-> TRUE, manualReturnRate |-> 0,
       manualDividendYield |-> 0, assets |-> <<>>],
      [useManualReturn |-> TRUE, manualReturnRate |-> 12,
       manualDividendYield |-> 6, assets |-> <<>>] }

MortgageParams ==
    { MakeParams(AgeNow, AgeNow + 2, M(100), c, 0, m, r) :
        c \in Contributions, m \in TermMortgages, r \in TermReturns }

MortgageEvents ==
    { <<>>,
      <<Event("CONTRIBUTION_STOP", AgeNow + 1, 0, 0)>>,
      <<Event("RETIREMENT_EARLY", AgeNow + 1, 1, 1)>>,
      <<Event("ONE_TIME_EXPENSE", AgeNow + 2, 1, 150)>> }

InitMortgage ==
    /\ params \in MortgageParams
    /\ events \in MortgageEvents
    /\ lifeExpectancy \in AgeNow..(AgeNow + MaxYears)
    /\ pc = "call"
    /\ year = 0
    /\ acc = NoAcc
    /\ results = <<>>
    /\ StressIdle /\ PortIdle /\ PmtIdle /\ RestIdle

SpecMortgage == InitMortgage /\ [][Next]_vars

----------------------------------------------------------------------------
(* calculateCompoundInterest, month by month *)

\* The variables that the projection leaves alone
otherVars == <<stressVars, portVars, pmtVars, convVars, repeatVars, mcVars,
               gapVars>>

\* yearEvents of the year the loop is in
EventsNow == YearEvents(events, params.currentAge + year)

\* isRetired of the year the loop is in
RetiredNow == params.currentAge + year >= acc.effectiveRetirementAge

\* Lines 152-185: the events at the start of the year
YearOpen ==
    /\ pc = "loop"
    /\ month = 0
    /\ LoopContinues(year, lifeExpectancy - params.currentAge)
    /\ acc' = YearStart(acc, EventsNow)
    /\ month' = 1
    /\ UNCHANGED <<params, events, lifeExpectancy, pc, year, results,
                   extraInvestFromMortgage, otherVars>>

\* Lines 187-215: one iteration of the monthly loop
MonthStep ==
    /\ pc = "loop"
    /\ month \in 1..12
    /\ extraInvestFromMortgage' =
           IF acc.monthsRemainingOnMortgage > 0 THEN 0
           ELSE ExtraInvestFromMortgage(params, acc)
    /\ acc' = MonthBody(params, acc,
                        EffectiveContrib(RetiredNow, EventsNow,
                                         params.monthlyContribution),
                        RatDivInt(ApplyReductions(
                                      acc.annualPriceAppreciation,
                                      OfType(EventsNow, {"RETURN_REDUCTION"})),
                                  1200),
                        RatDivInt(acc.effectiveYield, 1200),
                        Rat(params.mortgage.annualRate, 1200))
    /\ month' = month + 1
    /\ UNCHANGED <<params, events, lifeExpectancy, pc, year, results,
                   otherVars>>

\* Lines 217-250: the year end and the year's record
YearClose ==
    /\ pc = "loop"
    /\ month = 13
    /\ acc' = YearEnd(acc, EffectiveContrib(RetiredNow, EventsNow,
                                            params.annualExtraContribution))
    /\ results' = Append(results, YearRecord(params, acc', year))
    /\ year' = year + 1
    /\ month' = 0
    /\ UNCHANGED <<params, events, lifeExpectancy, pc,
                   extraInvestFromMortgage, otherVars>>

NextMonths ==
    EnterEmpty \/ Enter \/ YearOpen \/ MonthStep \/ YearClose \/ Return

SpecMonths == InitMortgage /\ [][NextMonths]_vars

----------------------------------------------------------------------------
(* calculateCompoundInterest with returns above zero and events of every   *)
(* kind, start and duration                                                *)

\* 101, 100.5 and an overdraft of 0.25
GrowthPrincipals == {M(101), M(100) + Scale \div 2, -(Scale \div 4)}

\* No mortgage, or 3 owed over two years
GrowthMortgages == {NoMortgage, Mortgage(TRUE, M(3), 0, RatInt(2), 0, TRUE)}

GrowthParams ==
    { MakeParams(AgeNow, AgeNow + 2, principal, c, 0, m, r) :
        principal \in GrowthPrincipals, c \in Contributions,
        m \in GrowthMortgages, r \in TermReturns }

\* What an event of each kind carries as its value
GrowthValues ==
    [MARKET_CRASH |-> 50, ONE_TIME_EXPENSE |-> 150, RECURRING_EXPENSE |-> 60,
     RETURN_REDUCTION |-> 50, CONTRIBUTION_STOP |-> 0]

\* Events that start in the year of the call or in one of the next two, with
\* no duration, a duration of 1 or 2, or a duration below zero
GrowthPool ==
    { Event(type, start, duration, GrowthValues[type]) :
        type \in DOMAIN GrowthValues, start \in AgeNow..(AgeNow + 2),
        duration \in {-1, 0, 1, 2} }

\* Events of two years that start in the year of the call or the next
TwoYearPool ==
    { e \in GrowthPool :
        /\ e.duration = 2 /\ e.startAge <= AgeNow + 1
        /\ e.type \in {"MARKET_CRASH", "RECURRING_EXPENSE"} }

GrowthEvents ==
    {<<>>} \cup { <<e>> : e \in GrowthPool }
           \cup { <<e, f>> : e \in TwoYearPool, f \in TwoYearPool }

InitGrowth ==
    /\ params \in GrowthParams
    /\ events \in GrowthEvents
    /\ lifeExpectancy \in AgeNow..(AgeNow + MaxYears)
    /\ pc = "call"
    /\ year = 0
    /\ acc = NoAcc
    /\ results = <<>>
    /\ StressIdle /\ PortIdle /\ PmtIdle /\ RestIdle

SpecGrowth == InitGrowth /\ [][Next]_vars

----------------------------------------------------------------------------
(* C21: the years in which an event is applied *)

\* d: the event's duration when it has one other than zero, 1 otherwise
Lasts(e) == IF e.duration # 0 THEN e.duration ELSE 1

\* startAge <= a < startAge + d: a is one of the d ages from startAge on
InWindow(e, a) == \E k \in 0..(Lasts(e) - 1) : a = e.startAge + k

\* The events of the list whose window holds the age a, in list order
Applied(a) == SelectSeq(events, LAMBDA e : InWindow(e, a))

\* The year-0 record of the same call without events
Untouched == InitialRecord(params, InitialAcc(params, <<>>))

\* An iteration of the year loop has pushed its record
YearDone == pc = "loop" /\ Len(results') = Len(results) + 1

\* The year that is simulated changes the locals as it would if the events
\* of the list were exactly those whose window holds the year's age, and
\* the year-0 record is the one of the call without events
WindowStep ==
    /\ YearDone =>
           acc' = YearWith(params, acc, Applied(params.currentAge + year),
                           params.currentAge + year
                               >= acc.effectiveRetirementAge)
    /\ results' # <<>> => results'[1] = Untouched

\* C21: an event other than RETIREMENT_EARLY is applied in the simulated
\* year of age a if and only if startAge <= a < startAge + d, where d is
\* the event's duration when present and non-zero and 1 otherwise; the
\* simulated years have a in currentAge+1..lifeExpectancy, so the year-0
\* record (age = currentAge) is never altered by an event.
C21_Window == [][WindowStep]_vars

\* A crash of 50% that starts in the year of the call and lasts two years
\* halves the balance in year 1 only: 101, then 50.5 (51 in the record),
\* and 50.5 again in year 2
C21_Reached ==
    /\ pc = "done"
    /\ events = <<Event("MARKET_CRASH", AgeNow, 2, 50)>>
    /\ params.initialPrincipal = M(101)
    /\ params.monthlyContribution = 0
    /\ params.manualReturnRate = 0
    /\ Len(results) >= 3
    /\ results[1].totalBalance = M(101)
    /\ results[2].totalBalance = M(51)
    /\ results[3].totalBalance = M(51)

----------------------------------------------------------------------------
(* C22: what a simulated year adds to the contributed total *)

\* A CONTRIBUTION_STOP event is active at the age
StopActive(age) ==
    \E i \in 1..Len(events) :
        /\ events[i].type = "CONTRIBUTION_STOP"
        /\ events[i].startAge <= age
        /\ age < events[i].startAge + Lasts(events[i])

\* m or a: the contribution if the saver is younger than the effective
\* retirement age and no CONTRIBUTION_STOP event is active, 0 otherwise
PaidIn(contribution) ==
    IF /\ params.currentAge + year < acc.effectiveRetirementAge
       /\ ~StopActive(params.currentAge + year)
    THEN contribution
    ELSE 0

\* The scheduled payment, if it is to be redirected once the term is over
Redirected ==
    IF params.mortgage.hasMortgage /\ params.mortgage.reinvestAfterPayoff
    THEN acc.mortgageMonthlyPayment
    ELSE 0

\* The months of the year at whose start no month of the term is left
MonthsAfterTerm ==
    Cardinality({ k \in 1..12 : acc.monthsRemainingOnMortgage - (k - 1) <= 0 })

\* By how much the year raises the contributed total
Growth == acc'.totalContributed - acc.totalContributed

\* C22 (amended): in every simulated year the unrounded contributed total
\* grows by exactly 12 x m + k x p + a, where m = monthlyContribution and
\* a = annualExtraContribution if age < effective retirement age and no
\* CONTRIBUTION_STOP event is active that year, m = a = 0 otherwise, p is
\* the redirected mortgage payment and k the number of months of the year
\* in which the term is over; expenses and crashes never change it.
C22_Contributed ==
    [][YearDone =>
           Growth = 12 * PaidIn(params.monthlyContribution)
                    + MonthsAfterTerm * Redirected
                    + PaidIn(params.annualExtraContribution)]_vars

\* C22 as stated: the total grows by exactly 12 x (m + r) + a, r being the
\* mortgage-redirected monthly amount (nothing, or the payment).  Violated
\* in the year in which a term of 1.5 years ends: six months redirect
\* nothing and six redirect the payment.
C22_AsStated ==
    [][YearDone =>
           \E r \in {0, Redirected} :
               Growth = 12 * (PaidIn(params.monthlyContribution) + r)
                        + PaidIn(params.annualExtraContribution)]_vars

\* A term of 18 months and a payment of 0.5: year 1 adds 12 x 10 + 5, and
\* year 2, in which the saver is retired, adds 6 x 0.5
C22_Reached ==
    /\ pc = "loop" /\ year = 3
    /\ events = <<>>
    /\ params.mortgage.remainingYears = Rat(3, 2)
    /\ params.monthlyContribution = M(10)
    /\ acc.mortgageMonthlyPayment = Scale \div 2
    /\ acc.totalContributed = M(228)

----------------------------------------------------------------------------
(* C23: the liabilities of the records *)

\* remainingPrincipal * (annualRate / 100) / 12: the first month's interest
FirstInterest(m) == MulRat(m.remainingPrincipal, Rat(m.annualRate, 1200))

\* A payment, when one is given, that covers the first month's interest
CoversInterest(m) ==
    m.monthlyPayment > 0 => m.monthlyPayment >= FirstInterest(m)

\* No record owes less than nothing
NeverBelowZero == \A k \in 1..Len(results) : results[k].totalLiabilities >= 0

\* No record from the given one on owes more than the record before it
NeverUpFrom(first) ==
    \A k \in first..(Len(results) - 1) :
        results[k + 1].totalLiabilities <= results[k].totalLiabilities

\* C23 (amended): in every projection with an active mortgage whose payment,
\* when one is given, is at least the first month's interest, the mortgage
\* principal only decreases: totalLiabilities is >= 0 in every record, never
\* increases from the record of one simulated year to the next, and is in
\* year 1 at most the rounded remainingPrincipal (the year-0 record holds
\* the principal unrounded).
C23_Liabilities ==
    (params.mortgage.hasMortgage /\ CoversInterest(params.mortgage)) =>
        /\ NeverBelowZero
        /\ NeverUpFrom(2)
        /\ Len(results) >= 2 =>
               results[2].totalLiabilities
                   <= Round(params.mortgage.remainingPrincipal)

\* C23 as stated: with an active mortgage (all of its numbers are >= 0 in
\* the mortgages drawn) totalLiabilities is >= 0 in every record and never
\* increases from one record to the next.  Violated by a payment of 1 on a
\* principal of 12 at 100% a month: the unpaid interest is added to the
\* principal.
C23_AsStated ==
    params.mortgage.hasMortgage => NeverBelowZero /\ NeverUpFrom(1)

\* 100 owed at 1% a month and 5 paid a month: less is owed after year 1,
\* and less again after year 2
C23_Reached ==
    /\ params.mortgage.annualRate = 12
    /\ CoversInterest(params.mortgage)
    /\ Len(results) >= 3
    /\ results[1].totalLiabilities = M(100)
    /\ results[2].totalLiabilities < M(100)
    /\ results[3].totalLiabilities < results[2].totalLiabilities
    /\ results[3].totalLiabilities >= 0

----------------------------------------------------------------------------
(* C24: the mortgage payment that a month redirects *)

\* An iteration of the monthly loop has run
MonthDone == pc = "loop" /\ month \in 1..12 /\ month' = month + 1

\* The months simulated before the month the loop is in
MonthsBefore == 12 * (year - 1) + (month - 1)

\* As many months were simulated as the term had, or more
TermOver == MonthsBefore >= TermMonths(params.mortgage)

\* What the month is to redirect
Due ==
    IF /\ params.mortgage.hasMortgage
       /\ params.mortgage.reinvestAfterPayoff
       /\ TermOver
    THEN MortgageMonthlyPayment(params.mortgage)
    ELSE 0

----------------------------------------------------------------------------
(* C25: the records are rounded, the running values are not *)

\* The running values a year hands to the next
Carried(a) ==
    <<a.currentBalance, a.totalContributed, a.totalAppreciation,
      a.totalDividends, a.mortgageBalance>>

\* The same values as a record shows them
Emitted(r) ==
    <<r.totalBalance, r.totalPrincipal, r.totalAppreciation,
      r.totalDividends, r.totalLiabilities>>

\* Each of the running values rounded
EachRounded(c) == [i \in 1..Len(c) |-> Round(c[i])]

\* Nothing moves the balance but crashes of 50%
HalvedOnly ==
    /\ \A i \in 1..Len(events) :
           events[i].type = "MARKET_CRASH" /\ events[i].value = 50
    /\ params.monthlyContribution = 0
    /\ params.annualExtraContribution = 0
    /\ params.manualReturnRate = 0
    /\ params.manualDividendYield = 0
    /\ ~params.mortgage.hasMortgage

\* The crashes applied in the simulated years 1..y
Halvings(y) ==
    Cardinality({ c \in (1..Len(events)) \X (1..y) :
                    InWindow(events[c[1]], params.currentAge + c[2]) })

RECURSIVE TwoTo(_)
TwoTo(n) == IF n = 0 THEN 1 ELSE 2 * TwoTo(n - 1)

\* The year's running values come from the running values before it, its
\* record is their rounding, and a balance that only crashes of 50% move is
\* the initial principal halved once for each crash so far, whatever the
\* records before showed (where the halves are amounts the model has)
CarriedStep ==
    /\ Carried(acc') = Carried(YearWith(params, acc, EventsNow, RetiredNow))
    /\ Emitted(results'[Len(results')]) = EachRounded(Carried(acc'))
    /\ (HalvedOnly /\ params.initialPrincipal % TwoTo(Halvings(year)) = 0) =>
           acc'.currentBalance * TwoTo(Halvings(year))
               = params.initialPrincipal

\* C25: rounding is applied only to emitted records: the running balance,
\* contributed total, appreciation, dividends and mortgage balance carried
\* from simulated year y into year y+1 are the unrounded values, so each
\* emitted field of year y+1 equals round(value computed from the unrounded
\* state of year y) and is never computed from a previously rounded record.
C25_Unrounded == [][YearDone => CarriedStep]_vars

\* 101 halved in year 1 and in year 2, with 3 owed over two years: the
\* records show 51 and 2 owed, then 25 and 0 owed, where a year 2 computed
\* from the record of year 1 would show 26 and 1 owed
C25_Reached ==
    /\ pc = "loop" /\ year = 3
    /\ results[2].totalBalance = M(51)
    /\ results[2].totalLiabilities = M(2)
    /\ acc.currentBalance = M(25) + Scale \div 4
    /\ results[3].totalBalance = M(25)
    /\ results[3].totalLiabilities = 0
    /\ Round(M(51) \div 2) = M(26)
    /\ Round(M(2) - 12 * acc.mortgageMonthlyPayment) = M(1)

----------------------------------------------------------------------------
(* C26: a balance below zero *)

\* The rate as the year's RETURN_REDUCTION events leave it
RateNow(rate) == ApplyReductions(rate, OfType(EventsNow, {"RETURN_REDUCTION"}))

\* Nothing is paid in, nothing is redirected and no rate is below zero
NothingPaidIn ==
    /\ params.monthlyContribution = 0
    /\ params.annualExtraContribution = 0
    /\ Redirected = 0
    /\ RateNow(acc.annualPriceAppreciation)[1] >= 0
    /\ RateNow(acc.annualDividendYield)[1] >= 0

RECURSIVE TotalValue(_)
\* The values of the events added up
TotalValue(evs) ==
    IF evs = <<>> THEN 0 ELSE Head(evs).value + TotalValue(Tail(evs))

\* The balance the year's crashes leave
Crashed == ApplyCrashes(acc.currentBalance, OfType(EventsNow, {"MARKET_CRASH"}))

\* The year's expenses
Expenses ==
    M(TotalValue(OfType(EventsNow, {"ONE_TIME_EXPENSE", "RECURRING_EXPENSE"})))

\* No event is applied in the year
QuietYear == Applied(params.currentAge + year) = <<>>

\* The totalBalance of the last record
LastEmitted == results[Len(results)].totalBalance

\* The year's record shows a balance below zero and not above the last one
FallsFurther ==
    /\ results'[Len(results')].totalBalance < 0
    /\ results'[Len(results')].totalBalance <= LastEmitted

\* Expenses above the balance leave the running balance below zero by at
\* least the difference, and the record shows it rounded, not raised to
\* zero; a record of a simulated year below zero is followed, in a year
\* without events, by one below zero that is not above it
BelowZeroStep ==
    /\ Expenses > Crashed =>
           /\ acc'.currentBalance <= Crashed - Expenses
           /\ results'[Len(results')].totalBalance = Round(acc'.currentBalance)
    /\ (QuietYear /\ Len(results) >= 2 /\ LastEmitted < 0) => FallsFurther

----------------------------------------------------------------------------
(* C27: the balance is what was paid in and what it earned *)

\* No event of the list is a crash or an expense
NothingTakenOut ==
    \A i \in 1..Len(events) :
        events[i].type \notin
            {"MARKET_CRASH", "ONE_TIME_EXPENSE", "RECURRING_EXPENSE"}

\* C27: for an events list containing no MARKET_CRASH, ONE_TIME_EXPENSE or
\* RECURRING_EXPENSE events, the unrounded projection state satisfies
\* balance = totalContributed + totalAppreciation + totalDividends at year 0
\* and at the end of every simulated year.
C27_Balance ==
    (NothingTakenOut /\ pc \in {"loop", "done"}) =>
        acc.currentBalance
            = acc.totalContributed + acc.totalAppreciation
              + acc.totalDividends

\* Three years at 12% and 6%, halved for two of them, with contributions
\* and with the mortgage payment redirected in the third
C27_Reached ==
    /\ pc = "done" /\ year = 4
    /\ events = <<Event("RETURN_REDUCTION", AgeNow + 1, 2, 50)>>
    /\ params.mortgage.hasMortgage
    /\ params.monthlyContribution = M(10)
    /\ acc.totalContributed = M(101) + 12 * M(10) + M(5) + 12 * (Scale \div 8)
    /\ acc.totalAppreciation > M(30)
    /\ acc.totalDividends > M(15)

----------------------------------------------------------------------------
(* C28: a shorter projection is the beginning of a longer one *)

\* The life expectancies up to which a logged call is compared with a
\* direct call
Shorter(c) ==
    { le \in (params.currentAge + 1)..(params.currentAge + DirectYears) :
        le <= c.lifeExpectancy }

\* The records of res up to the age le
UpTo(res, le) == SubSeq(res, 1, le - params.currentAge + 1)

\* Every shorter call returns the beginning of what the logged call returned
BeginsEveryCall ==
    \A i \in 1..Len(calls) :
        \A le \in Shorter(calls[i]) :
            calculateCompoundInterest(params, calls[i].events, le)
                = UpTo(calls[i].results, le)

\* The position of the longevity scenario in the catalog
Longevity ==
    CHOOSE i \in 1..Len(Scenarios(params)) :
        Scenarios(params)[i].id = "longevity"

\* The baseline is the beginning of the longevity projection, whose record
\* of age 85 shows the baseline balance
BeginsLongevity ==
    params.currentAge < 85 =>
        /\ calls[1].results = UpTo(ProjectionOf(Longevity), 85)
        /\ ProjectionOf(Longevity)[85 - params.currentAge + 1].totalBalance
               = baselineBalance

\* C28: for fixed params and events and currentAge < L1 <= L2,
\* calculateCompoundInterest(params, events, L1) is a prefix of
\* calculateCompoundInterest(params, events, L2) (the clock stands still);
\* consequently, in runStressTests with currentAge < 85, the longevity
\* scenario's projection has at age 85 a totalBalance equal to
\* baselineBalance.
C28_Prefix == spc = "done" => BeginsEveryCall /\ BeginsLongevity

\* From 82 on with contributions up to a retirement at 90: the longevity
\* projection runs to 100, shows the baseline balance at 85 and more at 100
C28_Reached ==
    /\ spc = "done"
    /\ params.currentAge = 82
    /\ params.monthlyContribution > 0
    /\ Len(ProjectionOf(Longevity)) = 19
    /\ Len(calls[1].results) = 4
    /\ ProjectionOf(Longevity)[4].totalBalance = baselineBalance
    /\ ProjectionOf(Longevity)[19].totalBalance > baselineBalance
    /\ ProjectionOf(Longevity)[3].totalBalance < baselineBalance

----------------------------------------------------------------------------
(* C29: the mortgage payments are not taken from the balance *)

\* The same call without the mortgage
WithoutMortgage ==
    calculateCompoundInterest([params EXCEPT !.mortgage.hasMortgage = FALSE],
                              events, lifeExpectancy)

\* The fields of a record that show the investment
Investment(r) ==
    <<r.totalPrincipal, r.totalAppreciation, r.totalDividends,
      r.totalBalance, r.yearlyPassiveIncome,
      r.totalPrincipalReal, r.totalAppreciationReal, r.totalDividendsReal,
      r.totalBalanceReal, r.yearlyPassiveIncomeReal>>

\* The records show the investment that the given records show
SameInvestment(res) ==
    /\ Len(results) = Len(res)
    /\ \A k \in 1..Len(results) : Investment(results[k]) = Investment(res[k])

\* C29: mortgage payments are never deducted from the investment balance:
\* for params with hasMortgage = true and reinvestAfterPayoff = false, every
\* record's totalPrincipal, totalAppreciation, totalDividends, totalBalance
\* and yearlyPassiveIncome (nominal and real) equal those of the same
\* projection with hasMortgage = false.
C29_Investment ==
    (/\ pc = "done"
     /\ params.mortgage.hasMortgage
     /\ ~params.mortgage.reinvestAfterPayoff) => SameInvestment(WithoutMortgage)

\* 100 owed at 1% a month, 5 paid a month, beside 100 invested at 12% and
\* 6% a year: the records of three years, of which the first shows a debt
\* and a net worth below the balance, and the last no debt
C29_Reached ==
    /\ pc = "done"
    /\ params.mortgage.hasMortgage
    /\ ~params.mortgage.reinvestAfterPayoff
    /\ params.mortgage.annualRate = 12
    /\ params.manualReturnRate = 12
    /\ Len(results) = 4
    /\ results[2].totalLiabilities > 0
    /\ results[2].netWorth < results[2].totalBalance
    /\ results[2].totalBalance > M(110)
    /\ results[4].totalLiabilities = 0
    /\ results[4].netWorth = results[4].totalBalance
    /\ WithoutMortgage[2].netWorth = results[2].totalBalance

----------------------------------------------------------------------------
(* C30: a mortgage without interest is paid down in equal parts *)

\* hasMortgage, annualRate = 0, monthlyPayment = 0, remainingYears >= 1 and
\* remainingPrincipal > 0
PaidInEqualParts(m) ==
    /\ m.hasMortgage
    /\ m.annualRate = 0
    /\ m.monthlyPayment = 0
    /\ m.remainingYears[1] >= m.remainingYears[2]
    /\ m.remainingPrincipal > 0

\* b = P - y * P / T for a term T of n / d years, without the division
OwedAfter(b, m, y) ==
    IF y * m.remainingYears[2] <= m.remainingYears[1]
    THEN b * m.remainingYears[1]
             = m.remainingPrincipal
                   * (m.remainingYears[1] - y * m.remainingYears[2])
    ELSE b = 0

\* C30: with hasMortgage = true, annualRate = 0, monthlyPayment = 0 (so the
\* payment is computed by calculatePMT over remainingYears x 12 periods),
\* remainingYears = T >= 1 and remainingPrincipal = P > 0, the unrounded
\* mortgage balance after y simulated years is P - y x P / T for y <= T and
\* 0 for y >= T: the liability reaches zero exactly when the term is
\* exhausted, not earlier, and stays zero afterwards.
C30_EqualParts ==
    (year >= 1 /\ PaidInEqualParts(params.mortgage)) =>
        OwedAfter(acc.mortgageBalance, params.mortgage, year - 1)

\* 9 owed over three years: 6 after the first, 3 after the second and
\* nothing after the third
C30_Reached ==
    /\ PaidInEqualParts(params.mortgage)
    /\ params.mortgage.remainingYears = RatInt(3)
    /\ params.mortgage.remainingPrincipal = M(9)
    /\ pc = "done" /\ year = 4
    /\ results[2].totalLiabilities = M(6)
    /\ results[3].totalLiabilities = M(3)
    /\ acc.mortgageBalance = 0
    /\ acc.monthsRemainingOnMortgage = 0
====
